---- MODULE Spec2Model ----
(***************************************************************************)
(* A model of the analysis toolkit of hvcc_gsph: the exact Riemann solver  *)
(* and the Sod wrapper (src/analysis/theoretical.py), the dimension        *)
(* guards of the comparison and angular-momentum routines, and the         *)
(* conservation analyzer (src/analysis/conservation.py).                   *)
(*                                                                         *)
(* Every operation of the toolkit is a function of its arguments.  A state *)
(* of the model is one pending call (`call') and, once the operation has   *)
(* run, what it gave back (`ret') and what it did on the way (`trace').    *)
(*                                                                         *)
(* Numbers.  A float is modelled as a fixed-point number: the integer v    *)
(* stands for v / Unit.  Sums and differences are exact; products,         *)
(* quotients, square roots and powers are rounded to the grid, the way a   *)
(* float operation rounds to the float grid.  Rounding is to the nearest   *)
(* grid value, symmetric in the sign, and a non-zero exact result is never *)
(* rounded to zero (doubles do not underflow in the ranges modelled).      *)
(* NaN stands for every non-finite float (nan, inf): it propagates through *)
(* arithmetic and every comparison with it is false.                       *)
(* The adiabatic index gamma is an exact rational [n, d], so that the      *)
(* exponents (gamma-1)/(2 gamma), 1/gamma, ... are exact rationals and a   *)
(* power is an integer power of an integer root.                           *)
(***************************************************************************)
EXTENDS Integers, Sequences, FiniteSets, TLC

VARIABLES call, ret, trace

vars == <<call, ret, trace>>

----------------------------------------------------------------------------
(* Fixed-point arithmetic                                                   *)

Unit == 10^3

NaN == -(2^30)

Fx(n, d) == (n * Unit) \div d

Abs(a) == IF a < 0 THEN -a ELSE a

Sgn(a) == IF a < 0 THEN -1 ELSE IF a > 0 THEN 1 ELSE 0

\* n / d rounded to the nearest integer, half away from zero, sign-symmetric;
\* a non-zero quotient is never rounded to zero.  d > 0.
RoundDiv(n, d) ==
    Sgn(n) * (IF 2 * (Abs(n) % d) >= d THEN (Abs(n) \div d) + 1
              ELSE IF Abs(n) \div d = 0 /\ n # 0 THEN 1
              ELSE Abs(n) \div d)

Neg(a) == IF a = NaN THEN NaN ELSE -a

Add(a, b) == IF a = NaN \/ b = NaN THEN NaN ELSE a + b

Sub(a, b) == IF a = NaN \/ b = NaN THEN NaN ELSE a - b

Mul(a, b) == IF a = NaN \/ b = NaN THEN NaN ELSE RoundDiv(a * b, Unit)

\* numpy division: a zero divisor gives a non-finite value, not an exception.
Div(a, b) ==
    IF a = NaN \/ b = NaN \/ b = 0 THEN NaN
    ELSE RoundDiv(Sgn(b) * a * Unit, Abs(b))

Lt(a, b) == a # NaN /\ b # NaN /\ a < b

Gt(a, b) == a # NaN /\ b # NaN /\ a > b

Le(a, b) == a # NaN /\ b # NaN /\ a <= b

Ge(a, b) == a # NaN /\ b # NaN /\ a >= b

\* Python's builtin max(a, b): b only when b > a.
PyMax(a, b) == IF Gt(b, a) THEN b ELSE a

RECURSIVE ISqrtBisect(_, _, _)
\* the largest r in lo..hi with r*r <= n   (lo*lo <= n < (hi+1)^2)
ISqrtBisect(n, lo, hi) ==
    IF lo >= hi THEN lo
    ELSE LET mid == (lo + hi + 1) \div 2
         IN  IF mid * mid <= n THEN ISqrtBisect(n, mid, hi)
             ELSE ISqrtBisect(n, lo, mid - 1)

\* of r and r + 1, with r * r <= n < (r + 1)^2, the one whose square is nearer n
NearerRoot(n, r) == IF (r + 1) * (r + 1) - n < n - r * r THEN r + 1 ELSE r

\* np.sqrt: nan for a negative argument.
Sqrt(a) ==
    IF a = NaN \/ a < 0 THEN NaN
    ELSE IF a = 0 THEN 0
    ELSE NearerRoot(a * Unit, ISqrtBisect(a * Unit, 1, 46340))

RECURSIVE PowInt(_, _)
\* a ** k for an integer k >= 0, one rounded product per factor.
PowInt(a, k) ==
    IF k = 0 THEN Unit
    ELSE IF k = 1 THEN a
    ELSE Mul(PowInt(a, k - 1), a)

RECURSIVE PowCapped(_, _, _)
\* a ** k for a >= 0; for a > 1 the powers grow, and the product is cut off
\* as soon as it exceeds cap (the result is then some value above cap), which
\* keeps the products inside the integer range.
PowCapped(a, k, cap) ==
    IF k = 0 THEN Unit
    ELSE IF k = 1 THEN a
    ELSE LET p == PowCapped(a, k - 1, cap)
         IN  IF a > Unit /\ p > cap THEN p ELSE Mul(p, a)

RECURSIVE RootBisect(_, _, _, _)
\* the largest r in lo..hi with r ** k <= a
RootBisect(a, k, lo, hi) ==
    IF lo >= hi THEN lo
    ELSE LET mid == (lo + hi + 1) \div 2
         IN  IF PowCapped(mid, k, a) <= a THEN RootBisect(a, k, mid, hi)
             ELSE RootBisect(a, k, lo, mid - 1)

\* the k-th root of a >= 0
Root(a, k) ==
    IF k = 1 \/ a = 0 THEN a
    ELSE RootBisect(a, k, 1, IF a > Unit THEN a ELSE Unit)

\* base ** e for a rational exponent e = [n, d] > 0 in lowest terms.  numpy
\* gives nan for a negative base with a fractional exponent.
Pow(base, e) ==
    IF base = NaN THEN NaN
    ELSE IF e.d = 1 THEN PowInt(base, e.n)
    ELSE IF base < 0 THEN NaN
    ELSE PowInt(Root(base, e.d), e.n)

----------------------------------------------------------------------------
(* Exact rationals [n, d], d > 0, for gamma and what is derived from it     *)

RECURSIVE Gcd(_, _)
Gcd(a, b) == IF b = 0 THEN a ELSE Gcd(b, a % b)

Q(n, d) ==
    LET g == Gcd(Abs(n), Abs(d))
    IN  [n |-> Sgn(d) * (n \div g), d |-> Abs(d) \div g]

QInt(k) == [n |-> k, d |-> 1]

QAdd(p, q) == Q(p.n * q.d + q.n * p.d, p.d * q.d)

QSub(p, q) == Q(p.n * q.d - q.n * p.d, p.d * q.d)

QMul(p, q) == Q(p.n * q.n, p.d * q.d)

QDiv(p, q) == Q(p.n * q.d, p.d * q.n)

\* a * q and a / q for a fixed-point a and a rational q > 0
MulQ(a, q) == IF a = NaN THEN NaN ELSE RoundDiv(a * q.n, q.d)

DivQ(a, q) == IF a = NaN THEN NaN ELSE RoundDiv(a * q.d, q.n)

----------------------------------------------------------------------------
(* scipy.optimize.fsolve, as the solvers use it                             *)
(*                                                                          *)
(* fsolve(func, [guess])[0] gives back one number.  When MINPACK converges  *)
(* it is a root of func; when it does not, fsolve only warns and gives back *)
(* its last iterate (ier # 1, which the callers never ask for).  The model  *)
(* takes the outcome of a call as an input: either the root of the residual *)
(* on the grid, or one of a few last iterates, the guess among them.        *)

P_MAX == 32 * Unit

\* (gamma - 1) / (2 gamma), 1 / gamma, 2 / (gamma - 1), 2 gamma / (gamma - 1)
ExpHalf(gamma) == QDiv(QSub(gamma, QInt(1)), QMul(QInt(2), gamma))

ExpInv(gamma) == QDiv(QInt(1), gamma)

ExpTwo(gamma) == QDiv(QInt(2), QSub(gamma, QInt(1)))

ExpTwoGamma(gamma) == QDiv(QMul(QInt(2), gamma), QSub(gamma, QInt(1)))

GammaRatio(gamma) == QDiv(QSub(gamma, QInt(1)), QAdd(gamma, QInt(1)))

\* riemann_problem.equations(p): u_L - u_R + f_L(p) + f_R(p), e the enclosing
\* scope (the arguments and the two sound speeds).
equations(e, p) ==
    LET gamma == e.gamma
        f_L == IF Gt(p, e.P_L)
               THEN LET A_L == Div(2 * Unit, MulQ(e.rho_L, QAdd(gamma, QInt(1))))
                        B_L == MulQ(e.P_L, GammaRatio(gamma))
                    IN  Mul(Sub(p, e.P_L), Sqrt(Div(A_L, Add(p, B_L))))
               ELSE Mul(DivQ(Mul(2 * Unit, e.c_L), QSub(gamma, QInt(1))),
                        Sub(Pow(Div(p, e.P_L), ExpHalf(gamma)), Unit))
        f_R == IF Gt(p, e.P_R)
               THEN LET A_R == Div(2 * Unit, MulQ(e.rho_R, QAdd(gamma, QInt(1))))
                        B_R == MulQ(e.P_R, GammaRatio(gamma))
                    IN  Mul(Sub(p, e.P_R), Sqrt(Div(A_R, Add(p, B_R))))
               ELSE Mul(DivQ(Mul(2 * Unit, e.c_R), QSub(gamma, QInt(1))),
                        Sub(Pow(Div(p, e.P_R), ExpHalf(gamma)), Unit))
    IN  Add(Add(Sub(e.u_L, e.u_R), f_L), f_R)

\* sod_shock_tube.equations(p): left rarefaction against right shock.
sod_equations(e, p) ==
    LET gamma == e.gamma
        A_L == DivQ(Mul(2 * Unit, e.c_L), QSub(gamma, QInt(1)))
        B   == GammaRatio(gamma)
        A_R == Div(2 * Unit, MulQ(e.rho_R, QAdd(gamma, QInt(1))))
        C_R == MulQ(e.P_R, B)
    IN  Sub(Mul(A_L, Sub(Unit, Pow(Div(p, e.P_L), ExpHalf(gamma)))),
            Mul(Sqrt(Div(A_R, Add(p, C_R))), Sub(p, e.P_R)))

\* The residual fsolve drives to zero, oriented so that it grows with p.
Residual(kind, e, p) ==
    IF kind = "riemann" THEN equations(e, p) ELSE Neg(sod_equations(e, p))

RECURSIVE FindRoot(_, _, _, _)
\* Residual < 0 at lo and >= 0 at hi: the least p in lo+1..hi with Residual >= 0
FindRoot(kind, e, lo, hi) ==
    IF hi - lo <= 1 THEN hi
    ELSE LET mid == (lo + hi) \div 2
         IN  IF Ge(Residual(kind, e, mid), 0) THEN FindRoot(kind, e, lo, mid)
             ELSE FindRoot(kind, e, mid, hi)

\* The roots of the residual among the positive pressures of the grid.
Roots(kind, e) ==
    IF Residual(kind, e, 1) = 0 THEN {1}
    ELSE IF Lt(Residual(kind, e, 1), 0) /\ Ge(Residual(kind, e, P_MAX), 0)
         THEN {FindRoot(kind, e, 1, P_MAX)}
         ELSE {}

\* What fsolve can give back: [x |-> value, ier |-> 1 (converged) or 5].
fsolve(kind, e, guess) ==
    {[x |-> r, ier |-> 1] : r \in Roots(kind, e)}
        \cup {[x |-> v, ier |-> 5] : v \in {guess, 0, -Unit}}

----------------------------------------------------------------------------
(* TheoreticalComparison.riemann_problem                                    *)

\* The pressure floor 1e-10 of riemann_problem: the least positive pressure,
\* which on the grid is one grid step.
P_FLOOR == 1

\* ShockTubeSolution: the five arrays, and nothing else.
ShockTubeSolution(x, rho, vel, pres, ene) ==
    [x |-> x, rho |-> rho, vel |-> vel, pres |-> pres, ene |-> ene]

Returned(value) == [status |-> "returned", value |-> value]

\* The exception swallowed: the caller gets None.
RaisedSwallowed(exc) == [status |-> "returned", value |-> << >>]

Raised(exc) == [status |-> "raised", exc |-> exc]

\* The floor left out.
FloorPressureOff(p) == p

\* The floor set at the unit pressure.
FloorPressureUnit(p) == PyMax(p, Unit)

\* P_star = max(P_star, 1e-10)
FloorPressure(p) == PyMax(p, P_FLOOR)

\* The contact placed at the star velocity, whatever the time.
ContactPositionUnscaled(u_star, t) == u_star

\* x_contact = u_star * t
ContactPosition(u_star, t) == Mul(u_star, t)

\* The test for a shock on a side, P_star > P_side, as written at each of
\* the four places that choose between the shock and the rarefaction
\* branch: the star velocity, the star densities, the wave speeds, the loop
\* over the positions.
ShockInVelocity(P_star, P) == Gt(P_star, P)

\* P_star >= P_side taken for a shock.
ShockInDensityOrEqual(P_star, P) == Ge(P_star, P)

ShockInDensity(P_star, P) == Gt(P_star, P)

ShockInSpeeds(P_star, P) == Gt(P_star, P)

ShockInRegions(P_star, P) == Gt(P_star, P)

\* Star velocity: u_star = u_L + f_L(P_star)
StarVelocity(e, P_star) ==
    LET gamma == e.gamma
        f_L == IF ShockInVelocity(P_star, e.P_L)
               THEN LET A_L == Div(2 * Unit, MulQ(e.rho_L, QAdd(gamma, QInt(1))))
                        B_L == MulQ(e.P_L, GammaRatio(gamma))
                    IN  Mul(Sub(P_star, e.P_L), Sqrt(Div(A_L, Add(P_star, B_L))))
               ELSE Mul(DivQ(Mul(2 * Unit, e.c_L), QSub(gamma, QInt(1))),
                        Sub(Pow(Div(P_star, e.P_L), ExpHalf(gamma)), Unit))
    IN  Add(e.u_L, f_L)

\* Star density of one side (rho, P the undisturbed state of that side).
StarDensity(gamma, rho, P, P_star) ==
    IF ShockInDensity(P_star, P)
    THEN Mul(rho, Div(Add(Div(P_star, P), MulQ(Unit, GammaRatio(gamma))),
                      Add(Div(MulQ(P_star, GammaRatio(gamma)), P), Unit)))
    ELSE Mul(rho, Pow(Div(P_star, P), ExpInv(gamma)))

\* The factor of the sound speed in a shock speed.
ShockFactor(gamma, P, P_star) ==
    Sqrt(Add(Div(MulQ(P_star, QDiv(QAdd(gamma, QInt(1)), QMul(QInt(2), gamma))), P),
             MulQ(Unit, QDiv(QSub(gamma, QInt(1)), QMul(QInt(2), gamma)))))

\* Wave speeds times t.  On a shock side head and tail are both the shock
\* front; x_shock_R exists on a right shock only, x_head_R and x_tail_R on a
\* right rarefaction only.
WaveBoundaries(e, t, P_star, u_star) ==
    LET gamma == e.gamma
        left  == IF ShockInSpeeds(P_star, e.P_L)
                 THEN LET v_shock_L == Sub(e.u_L, Mul(e.c_L, ShockFactor(gamma, e.P_L, P_star)))
                      IN  [x_head_L |-> Mul(v_shock_L, t), x_tail_L |-> Mul(v_shock_L, t)]
                 ELSE LET c_star_L == Mul(e.c_L, Pow(Div(P_star, e.P_L), ExpHalf(gamma)))
                      IN  [x_head_L |-> Mul(Sub(e.u_L, e.c_L), t),
                           x_tail_L |-> Mul(Sub(u_star, c_star_L), t)]
        right == IF ShockInSpeeds(P_star, e.P_R)
                 THEN LET v_shock_R == Add(e.u_R, Mul(e.c_R, ShockFactor(gamma, e.P_R, P_star)))
                      IN  [x_shock_R |-> Mul(v_shock_R, t)]
                 ELSE LET c_star_R == Mul(e.c_R, Pow(Div(P_star, e.P_R), ExpHalf(gamma)))
                      IN  [x_head_R |-> Mul(Add(e.u_R, e.c_R), t),
                           x_tail_R |-> Mul(Add(u_star, c_star_R), t)]
    IN  [left |-> left, right |-> right, x_contact |-> ContactPosition(u_star, t)]

\* What the loop body leaves in rho[i], vel[i], pres[i] for the shifted
\* position xi, the three starting at zero; fan tells whether a fan formula
\* (with its xi / t) was evaluated, assigned whether a branch wrote the three.
Zero3 == [rho |-> 0, vel |-> 0, pres |-> 0, fan |-> FALSE, assigned |-> FALSE]

State3(rho, vel, pres) == [rho |-> rho, vel |-> vel, pres |-> pres, fan |-> FALSE, assigned |-> TRUE]

LeftFan(e, t, xi) ==
    LET gamma == e.gamma
        vel == MulQ(Add(Add(e.c_L, Div(xi, t)), e.u_L), QDiv(QInt(2), QAdd(gamma, QInt(1))))
        c   == Sub(e.c_L, MulQ(Sub(vel, e.u_L), QDiv(QSub(gamma, QInt(1)), QInt(2))))
    IN  [rho  |-> Mul(e.rho_L, Pow(Div(c, e.c_L), ExpTwo(gamma))),
         vel  |-> vel,
         pres |-> Mul(e.P_L, Pow(Div(c, e.c_L), ExpTwoGamma(gamma))),
         fan  |-> TRUE, assigned |-> TRUE]

RightFan(e, t, xi) ==
    LET gamma == e.gamma
        vel == MulQ(Add(Add(Neg(e.c_R), Div(xi, t)), e.u_R), QDiv(QInt(2), QAdd(gamma, QInt(1))))
        c   == Add(e.c_R, MulQ(Sub(vel, e.u_R), QDiv(QSub(gamma, QInt(1)), QInt(2))))
    IN  [rho  |-> Mul(e.rho_R, Pow(Div(c, e.c_R), ExpTwo(gamma))),
         vel  |-> vel,
         pres |-> Mul(e.P_R, Pow(Div(c, e.c_R), ExpTwoGamma(gamma))),
         fan  |-> TRUE, assigned |-> TRUE]

\* The branch for the left of the contact, and what it leaves when xi is not
\* left of the contact.
LeftRegion(e, t, w, xi) ==
    IF Lt(xi, w.b.left.x_head_L) THEN State3(e.rho_L, e.u_L, e.P_L)
    ELSE IF ~ShockInRegions(w.P_star, e.P_L) /\ Lt(xi, w.b.left.x_tail_L) THEN LeftFan(e, t, xi)
    ELSE IF Lt(xi, w.b.x_contact) THEN State3(w.rho_star_L, w.u_star, w.P_star)
    ELSE Zero3

\* The branch for the right of the contact.
RightRegion(e, t, w, xi) ==
    IF ShockInRegions(w.P_star, e.P_R)
    THEN IF Lt(xi, w.b.right.x_shock_R) THEN State3(w.rho_star_R, w.u_star, w.P_star)
         ELSE State3(e.rho_R, e.u_R, e.P_R)
    ELSE IF Lt(xi, w.b.right.x_tail_R) THEN State3(w.rho_star_R, w.u_star, w.P_star)
         ELSE IF Lt(xi, w.b.right.x_head_R) THEN RightFan(e, t, xi)
         ELSE State3(e.rho_R, e.u_R, e.P_R)

\* The right branch never run.
OverwriteNever(left, right, beyond) == left

\* The right branch runs after the left one when xi >= x_contact and
\* overwrites what the left one has written.
Overwrite(left, right, beyond) ==
    IF beyond THEN [right EXCEPT !.fan = @ \/ left.fan] ELSE left

FillRegion(e, t, w, xi) ==
    Overwrite(LeftRegion(e, t, w, xi), RightRegion(e, t, w, xi),
              (Le(w.P_star, e.P_L) \/ Gt(w.P_star, e.P_L)) /\ Ge(xi, w.b.x_contact))

\* The arguments and the two sound speeds: the scope of equations.
Scope(rho_L, P_L, u_L, rho_R, P_R, u_R, gamma) ==
    [rho_L |-> rho_L, P_L |-> P_L, u_L |-> u_L,
     rho_R |-> rho_R, P_R |-> P_R, u_R |-> u_R,
     gamma |-> gamma,
     c_L |-> Sqrt(Div(MulQ(P_L, gamma), rho_L)),
     c_R |-> Sqrt(Div(MulQ(P_R, gamma), rho_R))]

\* The star region and the wave positions, with what each place took the
\* wave of each side for (shock or not).
StarRegion(e, t, P_star, u_star) ==
    [P_star |-> P_star, u_star |-> u_star,
     rho_star_L |-> StarDensity(e.gamma, e.rho_L, e.P_L, P_star),
     rho_star_R |-> StarDensity(e.gamma, e.rho_R, e.P_R, P_star),
     b |-> WaveBoundaries(e, t, P_star, u_star),
     shock |-> [velocity_L |-> ShockInVelocity(P_star, e.P_L),
                density_L |-> ShockInDensity(P_star, e.P_L),
                density_R |-> ShockInDensity(P_star, e.P_R),
                speeds_L |-> ShockInSpeeds(P_star, e.P_L),
                speeds_R |-> ShockInSpeeds(P_star, e.P_R),
                regions_L |-> ShockInRegions(P_star, e.P_L),
                regions_R |-> ShockInRegions(P_star, e.P_R)]]

\* ene = pres / ((gamma - 1) * rho), and the solution object
Solution(x, gamma, cell) ==
    ShockTubeSolution(x,
                      [i \in DOMAIN x |-> cell[i].rho],
                      [i \in DOMAIN x |-> cell[i].vel],
                      [i \in DOMAIN x |-> cell[i].pres],
                      [i \in DOMAIN x |->
                          Div(cell[i].pres, MulQ(cell[i].rho, QSub(gamma, QInt(1))))])

RiemannReturn(x, e, fs, floored, w, cell) ==
    [ret |-> Returned(Solution(x, e.gamma, cell)),
     trace |-> [fsolve |-> TRUE, ier |-> fs.ier, floored |-> floored,
                regions |-> TRUE, solve_ivp |-> FALSE, e |-> e, w |-> w,
                fan |-> {i \in DOMAIN x : cell[i].fan},
                assigned |-> {i \in DOMAIN x : cell[i].assigned}]]

RiemannFill(x, x_shifted, t, e, fs, floored, w) ==
    RiemannReturn(x, e, fs, floored, w,
                  [i \in DOMAIN x |-> FillRegion(e, t, w, x_shifted[i])])

RiemannStar(x, x_shifted, t, e, fs, floored, P_star) ==
    IF floored /\ ((Gt(P_star, e.P_L) /\ e.P_L = 0) \/ (Gt(P_star, e.P_R) /\ e.P_R = 0))
    THEN \* P_star / P with the floor, a Python float, over a zero pressure
         [ret |-> Raised("ZeroDivisionError"),
          trace |-> [fsolve |-> TRUE, ier |-> fs.ier, floored |-> floored,
                     regions |-> FALSE, solve_ivp |-> FALSE]]
    ELSE RiemannFill(x, x_shifted, t, e, fs, floored,
                     StarRegion(e, t, P_star, StarVelocity(e, P_star)))

\* The interface ignored.
Unshifted(x, x_interface) == x

\* x_shifted = x - x_interface
Shifted(x, x_interface) == [i \in DOMAIN x |-> Sub(x[i], x_interface)]

\* riemann_problem(x, t, rho_L, P_L, u_L, rho_R, P_R, u_R, gamma, x_interface)
\* with fs what its call of fsolve gives back.  The result is what the caller
\* gets (ret) and what was computed on the way (trace).  The stages, in the
\* order of the code: the shift and the sound speeds; the floor; the star
\* state and the wave positions; the loop over the positions; the return.
riemann_problem(x, t, rho_L, P_L, u_L, rho_R, P_R, u_R, gamma, x_interface, fs) ==
    IF rho_L = 0 \/ rho_R = 0
    THEN \* gamma * P / rho on Python floats
         [ret |-> Raised("ZeroDivisionError"),
          trace |-> [fsolve |-> FALSE, regions |-> FALSE, solve_ivp |-> FALSE]]
    ELSE RiemannStar(x, Shifted(x, x_interface), t,
                     Scope(rho_L, P_L, u_L, rho_R, P_R, u_R, gamma),
                     fs, Gt(P_FLOOR, fs.x), FloorPressure(fs.x))

\* x -= x_interface, the shift written into the caller's array
QueryShiftedInPlace(x, x_interface) == [i \in DOMAIN x |-> Sub(x[i], x_interface)]

\* The caller's array after a call: x_shifted = x - x_interface, the zeros
\* arrays and ene are new arrays, and nothing is assigned to an element of x.
QueryAfter(x, x_interface) == x

\* P_guess = max(0.5 * (P_L + P_R), 1e-10)
P_guess(P_L, P_R) == PyMax(MulQ(Add(P_L, P_R), Q(1, 2)), P_FLOOR)

----------------------------------------------------------------------------
(* TheoreticalComparison.sod_shock_tube                                     *)

\* The standard Sod states and fsolve's starting point [0.3]
SodLeft == [rho |-> Unit, P |-> Unit, u |-> 0]

SodRight == [rho |-> Fx(1, 8), P |-> Fx(1, 10), u |-> 0]

SodGuess == Fx(3, 10)

SodEnv(gamma) ==
    Scope(SodLeft.rho, SodLeft.P, SodLeft.u, SodRight.rho, SodRight.P, SodRight.u, gamma)

SodFill(e, t, w, xi) ==
    IF Lt(xi, w.x_head) THEN State3(e.rho_L, e.u_L, e.P_L)
    ELSE IF Lt(xi, w.x_tail)
    THEN LET gamma == e.gamma
             vel == MulQ(Add(e.c_L, Div(xi, t)), QDiv(QInt(2), QAdd(gamma, QInt(1))))
             c   == Sub(e.c_L, MulQ(vel, QDiv(QSub(gamma, QInt(1)), QInt(2))))
         IN  [rho  |-> Mul(e.rho_L, Pow(Div(c, e.c_L), ExpTwo(gamma))),
              vel  |-> vel,
              pres |-> Mul(e.P_L, Pow(Div(c, e.c_L), ExpTwoGamma(gamma))),
              fan  |-> TRUE, assigned |-> TRUE]
    ELSE IF Lt(xi, w.x_contact) THEN State3(w.rho_star_L, w.u_star, w.P_star)
    ELSE IF Lt(xi, w.x_shock) THEN State3(w.rho_star_R, w.u_star, w.P_star)
    ELSE State3(e.rho_R, e.u_R, e.P_R)

\* u_star = 2 c_L / (gamma - 1) * (1 - (P_star / P_L) ** ((gamma - 1) / (2 gamma)))
SodStarVelocity(e, P_star) ==
    Mul(DivQ(Mul(2 * Unit, e.c_L), QSub(e.gamma, QInt(1))),
        Sub(Unit, Pow(Div(P_star, e.P_L), ExpHalf(e.gamma))))

\* v_shock
SodShockSpeed(e, P_star) ==
    Add(e.u_R,
        Sqrt(Mul(Div(MulQ(e.P_R, e.gamma), 2 * e.rho_R),
                 Add(Div(MulQ(P_star, QDiv(QAdd(e.gamma, QInt(1)), e.gamma)), e.P_R),
                     MulQ(Unit, QDiv(QSub(e.gamma, QInt(1)), e.gamma))))))

\* The star region and the wave positions of the Sod problem.
SodStarRegion(e, t, P_star, u_star) ==
    [P_star |-> P_star, u_star |-> u_star,
     rho_star_L |-> Mul(e.rho_L, Pow(Div(P_star, e.P_L), ExpInv(e.gamma))),
     rho_star_R |-> Mul(e.rho_R,
                        Div(Add(Div(P_star, e.P_R), MulQ(Unit, GammaRatio(e.gamma))),
                            Add(Div(MulQ(P_star, GammaRatio(e.gamma)), e.P_R), Unit))),
     x_head |-> Mul(Neg(e.c_L), t),
     x_tail |-> Mul(Sub(u_star, Mul(e.c_L, Pow(Div(P_star, e.P_L), ExpHalf(e.gamma)))), t),
     x_contact |-> Mul(u_star, t),
     x_shock |-> Mul(SodShockSpeed(e, P_star), t)]

SodReturn(x, e, fs, w, cell) ==
    [ret |-> Returned(Solution(x, e.gamma, cell)),
     trace |-> [fsolve |-> TRUE, ier |-> fs.ier, floored |-> FALSE,
                regions |-> TRUE, solve_ivp |-> FALSE, e |-> e, w |-> w,
                fan |-> {i \in DOMAIN x : cell[i].fan},
                assigned |-> {i \in DOMAIN x : cell[i].assigned}]]

SodRegions(x, t, e, fs, w) ==
    SodReturn(x, e, fs, w, [i \in DOMAIN x |-> SodFill(e, t, w, x[i])])

\* sod_shock_tube(x, t, gamma) with fs what its call of fsolve gives back.
sod_shock_tube(x, t, gamma, fs) ==
    SodRegions(x, t, SodEnv(gamma), fs,
               SodStarRegion(SodEnv(gamma), t, fs.x, SodStarVelocity(SodEnv(gamma), fs.x)))

----------------------------------------------------------------------------
(* SedovTaylorSolution: construction                                        *)

\* SedovParameters and its two properties
SedovParameters(E0, rho0, gamma, dimension) ==
    [E0 |-> E0, rho0 |-> rho0, gamma |-> gamma, dimension |-> dimension]

omega(params) == Q(3, params.dimension + 1)

alpha(params) == Q(2, params.dimension + 2)

\* What the dense output of an integration from xi = 1 towards 1e-8 gives for
\* V at xi = 0, a point outside the span: the extrapolation of its last
\* segment.  Nothing in _compute_similarity_solution fixes the value.
OriginValues == {0, Fx(7, 8)}

\* scipy.integrate.solve_ivp(similarity_odes, xi_span, y0, dense_output=True).
\* The integrator either reaches the end of the span (success) or gives up on
\* the way (success = False, status = -1); either way it gives back an
\* OdeResult whose dense output sol covers what was integrated and
\* extrapolates beyond it.  The dense output is the solution of the system
\* (gamma, omega, j) through y0 at the start of the span; the model keeps it
\* as that description, with the point the integration reached and the first
\* component of its value at 0.
solve_ivp(gamma, om, j, xi_span, y0) ==
    LET sol(t_end, v0) == [gamma |-> gamma, omega |-> om, j |-> j,
                           from |-> xi_span[1], y0 |-> y0, reached |-> t_end,
                           origin |-> v0]
    IN  {[success |-> TRUE, status |-> 0, sol |-> sol(xi_span[2], v0)] :
                 v0 \in OriginValues}
        \cup {[success |-> FALSE, status |-> -1, sol |-> sol(t_end, v0)] :
                 t_end \in {Fx(1, 2), Fx(1, 10)}, v0 \in OriginValues}

\* sol.sol(xi) of the dense output, for the two ends of linspace(0, 1, 1000):
\* at the start of the span the first segment gives back y0 itself, at 0 the
\* last segment is extrapolated.
DenseOutput(sol, xi) ==
    IF xi = sol.from THEN [V |-> sol.y0[1], Z |-> sol.y0[2], G |-> sol.y0[3]]
    ELSE [V |-> sol.origin]

\* SedovTaylorSolution(params): __init__ and _compute_similarity_solution,
\* with ivp what the call of solve_ivp gives back.  xi, V, Z, G are the dense
\* output sampled on linspace(0, 1, 1000), kept here at the two ends of the
\* grid (Z and G at 0 are not modelled); the interpolators are built on them.
SedovTaylorSolution(params, ivp) ==
    LET gamma == params.gamma
        V_shock == MulQ(Unit, QDiv(QInt(2), QAdd(gamma, QInt(1))))
        Z_shock == MulQ(Unit, QDiv(QAdd(gamma, QInt(1)), QSub(gamma, QInt(1))))
        G_shock == MulQ(Unit, QDiv(QInt(2), QAdd(gamma, QInt(1))))
    IN  [ret |-> Returned([params |-> params,
                           xi_shock |-> Unit,
                           xi |-> [first |-> 0, last |-> Unit, num |-> 1000],
                           V |-> [first |-> DenseOutput(ivp.sol, 0).V,
                                  last |-> DenseOutput(ivp.sol, Unit).V],
                           Z |-> [last |-> DenseOutput(ivp.sol, Unit).Z],
                           G |-> [last |-> DenseOutput(ivp.sol, Unit).G],
                           profile |-> ivp.sol]),
         trace |-> [fsolve |-> FALSE, regions |-> FALSE, solve_ivp |-> TRUE,
                    success |-> ivp.success,
                    y0 |-> <<V_shock, Z_shock, G_shock>>]]

SedovY0(params) ==
    <<MulQ(Unit, QDiv(QInt(2), QAdd(params.gamma, QInt(1)))),
      MulQ(Unit, QDiv(QAdd(params.gamma, QInt(1)), QSub(params.gamma, QInt(1)))),
      MulQ(Unit, QDiv(QInt(2), QAdd(params.gamma, QInt(1))))>>

----------------------------------------------------------------------------
(* The calls of the solvers                                                 *)

\* Bounds of the inputs
NumPoints == 9

Gammas == {Q(7, 5), Q(5, 3)}

Densities == {Fx(1, 8), Unit}

Pressures == {Fx(1, 10), Unit}

Velocities == {-Unit, 0, Unit}

Times == {0, Fx(3, 4)}

Interfaces == {0, Fx(1, 2)}

\* Query arrays: the empty array and NumPoints positions half a unit apart,
\* centred on the origin.
QueryGrid == [i \in 1..NumPoints |-> (2 * i - NumPoints - 1) * Fx(1, 4)]

QueryArrays == {<< >>, QueryGrid}

GasStates == [rho : Densities, P : Pressures, u : Velocities]

\* States that are no GasState: a density or a pressure that is not positive.
BadStates ==
    [rho : {0, -Unit}, P : {Unit}, u : {0}] \cup [rho : {Unit}, P : {0, -Unit}, u : {0}]

RiemannCall(x, t, L, R, gamma, x_interface) ==
    [op |-> "riemann_problem", x |-> x, t |-> t,
     rho_L |-> L.rho, P_L |-> L.P, u_L |-> L.u,
     rho_R |-> R.rho, P_R |-> R.P, u_R |-> R.u,
     gamma |-> gamma, x_interface |-> x_interface]

\* Every pair of gas states on the query grid with the interface at the
\* origin, and the Sod pair and its mirror image on every query array and
\* interface.
RiemannCalls ==
    {RiemannCall(QueryGrid, t, L, R, gamma, 0) :
        t \in Times, L \in GasStates, R \in GasStates, gamma \in Gammas}
    \cup
    {RiemannCall(x, t, LR[1], LR[2], gamma, x0) :
        x \in QueryArrays, t \in Times, gamma \in Gammas, x0 \in Interfaces,
        LR \in {<<SodLeft, SodRight>>, <<SodRight, SodLeft>>}}

BadRiemannCalls ==
    {RiemannCall(QueryGrid, t, L, R, Q(7, 5), 0) :
        t \in Times, L \in BadStates \cup {SodLeft}, R \in BadStates \cup {SodRight}}
    \ {RiemannCall(QueryGrid, t, SodLeft, SodRight, Q(7, 5), 0) : t \in Times}

SodCalls ==
    {[op |-> "sod_shock_tube", x |-> x, t |-> t, gamma |-> gamma] :
        x \in QueryArrays, t \in Times, gamma \in Gammas}

Pending == [status |-> "pending"]

NoTrace == [fsolve |-> FALSE, regions |-> FALSE, solve_ivp |-> FALSE]

RiemannEnv(c) == Scope(c.rho_L, c.P_L, c.u_L, c.rho_R, c.P_R, c.u_R, c.gamma)

RiemannResult(c, fs) ==
    riemann_problem(c.x, c.t, c.rho_L, c.P_L, c.u_L, c.rho_R, c.P_R, c.u_R,
                    c.gamma, c.x_interface, fs)

CallRiemannProblem ==
    /\ call.op = "riemann_problem"
    /\ ret = Pending
    /\ \E fs \in fsolve("riemann", RiemannEnv(call), P_guess(call.P_L, call.P_R)) :
          \E r \in {RiemannResult(call, fs)} :
              /\ ret' = r.ret
              /\ trace' = r.trace
    /\ UNCHANGED call

CallSodShockTube ==
    /\ call.op = "sod_shock_tube"
    /\ ret = Pending
    /\ \E fs \in fsolve("sod", SodEnv(call.gamma), SodGuess) :
          \E r \in {sod_shock_tube(call.x, call.t, call.gamma, fs)} :
              /\ ret' = r.ret
              /\ trace' = r.trace
    /\ UNCHANGED call

Energies == {Unit, 2 * Unit}

SedovCalls ==
    {[op |-> "SedovTaylorSolution",
      params |-> SedovParameters(E0, rho0, gamma, dimension)] :
        E0 \in Energies, rho0 \in Densities, gamma \in Gammas, dimension \in {2, 3}}

ConstructSedovTaylorSolution ==
    /\ call.op = "SedovTaylorSolution"
    /\ ret = Pending
    /\ \E ivp \in solve_ivp(call.params.gamma, omega(call.params),
                            call.params.dimension - 1, <<Unit, 0>>,
                            SedovY0(call.params)) :
          \E r \in {SedovTaylorSolution(call.params, ivp)} :
              /\ ret' = r.ret
              /\ trace' = r.trace
    /\ UNCHANGED call

InitSolvers ==
    /\ call \in RiemannCalls \cup BadRiemannCalls \cup SodCalls \cup SedovCalls
    /\ ret = Pending
    /\ trace = NoTrace

NextSolvers ==
    \/ CallRiemannProblem
    \/ CallSodShockTube
    \/ ConstructSedovTaylorSolution

SpecSolvers == InitSolvers /\ [][NextSolvers]_vars

----------------------------------------------------------------------------
(* Properties of the Riemann solver and the Sod wrapper                     *)

Tolerance == Unit \div 100

\* Equal up to the rounding of the grid.
Near(a, b) == a # NaN /\ b # NaN /\ Abs(a - b) <= Tolerance

\* GasState: density > 0 and pressure > 0 on both sides.
ValidStates(c) == c.rho_L > 0 /\ c.P_L > 0 /\ c.rho_R > 0 /\ c.P_R > 0

IsSolverCall == call.op \in {"riemann_problem", "sod_shock_tube"}

LeftOf(c) ==
    IF c.op = "sod_shock_tube" THEN SodLeft
    ELSE [rho |-> c.rho_L, P |-> c.P_L, u |-> c.u_L]

RightOf(c) ==
    IF c.op = "sod_shock_tube" THEN SodRight
    ELSE [rho |-> c.rho_R, P |-> c.P_R, u |-> c.u_R]

InterfaceOf(c) == IF c.op = "sod_shock_tube" THEN 0 ELSE c.x_interface

SodAsRiemann(c) == RiemannCall(c.x, c.t, SodLeft, SodRight, c.gamma, 0)

ConvergedOutcomes(c) ==
    {fs \in fsolve("riemann", RiemannEnv(c), P_guess(c.P_L, c.P_R)) : fs.ier = 1}

SameArrays(a, b) ==
    /\ DOMAIN a.rho = DOMAIN b.rho
    /\ \A i \in DOMAIN a.rho :
          /\ Near(a.rho[i], b.rho[i])
          /\ Near(a.vel[i], b.vel[i])
          /\ Near(a.pres[i], b.pres[i])
          /\ Near(a.ene[i], b.ene[i])

\* C1: sod_shock_tube(x, t, gamma) returns the same density, velocity,
\* pressure and internal energy, the same star velocity and the same region
\* boundaries as riemann_problem on the Sod states with x_interface = 0.
C1_SodWrapsRiemann ==
    (call.op = "sod_shock_tube" /\ ret.status = "returned" /\ trace.ier = 1) =>
        \A fs \in ConvergedOutcomes(SodAsRiemann(call)) :
            \A r \in {RiemannResult(SodAsRiemann(call), fs)} :
                /\ r.ret.status = "returned"
                /\ SameArrays(r.ret.value, ret.value)
                /\ Near(r.trace.w.u_star, trace.w.u_star)
                /\ Near(r.trace.w.b.x_contact, trace.w.x_contact)
                /\ Near(r.trace.w.b.left.x_head_L, trace.w.x_head)
                /\ Near(r.trace.w.b.left.x_tail_L, trace.w.x_tail)
                /\ Gt(r.trace.w.P_star, r.trace.e.P_R)
                /\ Near(r.trace.w.b.right.x_shock_R, trace.w.x_shock)

IsStep(c, v) ==
    \A i \in DOMAIN c.x :
        LET s == IF c.x[i] < InterfaceOf(c) THEN LeftOf(c) ELSE RightOf(c)
        IN  v.rho[i] = s.rho /\ v.vel[i] = s.u /\ v.pres[i] = s.P

\* C2: at t = 0 riemann_problem and sod_shock_tube return the two input
\* states with a step at the interface (left state for x < x_interface, right
\* state for x >= x_interface), whatever the wave on each side, and no fan
\* formula (the only place that divides by t) is evaluated.
C2_StepAtTimeZero ==
    (IsSolverCall /\ call.t = 0 /\ ret.status = "returned"
        /\ (call.op = "riemann_problem" => ValidStates(call))) =>
        /\ DOMAIN ret.value.rho = DOMAIN call.x
        /\ IsStep(call, ret.value)
        /\ trace.fan = {}

\* A left rarefaction and a right shock at t = 0, with query positions on
\* both sides of the interface.
C2_Witness ==
    /\ call.op = "riemann_problem" /\ call.t = 0 /\ ValidStates(call)
    /\ ret.status = "returned" /\ trace.ier = 1
    /\ Lt(trace.w.P_star, call.P_L) /\ Gt(trace.w.P_star, call.P_R)
    /\ \E i, j \in DOMAIN call.x :
          call.x[i] < call.x_interface /\ call.x[j] >= call.x_interface

Mirror(c) ==
    RiemannCall([i \in DOMAIN c.x |-> -c.x[i]], c.t,
                [rho |-> c.rho_R, P |-> c.P_R, u |-> -c.u_R],
                [rho |-> c.rho_L, P |-> c.P_L, u |-> -c.u_L],
                c.gamma, -c.x_interface)

\* C3: for t > 0, riemann_problem on the mirrored problem (states swapped,
\* velocities negated, positions negated) returns at -x the density and
\* pressure, and the negated velocity, of the original problem at x, at every
\* query position.
C3_MirrorSymmetry ==
    (call.op = "riemann_problem" /\ ValidStates(call) /\ call.t > 0
        /\ ret.status = "returned" /\ trace.ier = 1) =>
        \A fs \in ConvergedOutcomes(Mirror(call)) :
            \A r \in {RiemannResult(Mirror(call), fs)} :
                /\ r.ret.status = "returned"
                /\ \A i \in DOMAIN call.x :
                      /\ Near(r.ret.value.rho[i], ret.value.rho[i])
                      /\ Near(r.ret.value.pres[i], ret.value.pres[i])
                      /\ Near(r.ret.value.vel[i], Neg(ret.value.vel[i]))

\* C4: for positive densities and pressures the star pressure riemann_problem
\* works with after the floor is strictly positive, and so are both star
\* densities, on the shock and on the rarefaction branch.
C4_StarStatePositive ==
    (call.op = "riemann_problem" /\ ValidStates(call) /\ trace.regions) =>
        /\ Gt(trace.w.P_star, 0)
        /\ Gt(trace.w.rho_star_L, 0)
        /\ Gt(trace.w.rho_star_R, 0)

\* The root-finder gave back a pressure that is not positive and the floor
\* replaced it.
C4_Witness ==
    /\ call.op = "riemann_problem" /\ ValidStates(call)
    /\ ret.status = "returned" /\ trace.regions
    /\ trace.floored /\ trace.w.P_star = P_FLOOR

\* C5: when the root-finder's pressure is below the floor and riemann_problem
\* replaces it by the floor, the solution it returns is flagged as
\* approximate.
C5_FlooredIsFlagged ==
    (call.op = "riemann_problem" /\ ValidStates(call)
        /\ ret.status = "returned" /\ trace.floored) =>
        /\ "approximate" \in DOMAIN ret.value
        /\ ret.value.approximate = TRUE

\* C6: when the root-finder of riemann_problem or sod_shock_tube, or the ODE
\* integrator of the SedovTaylorSolution constructor, reports that it did not
\* converge, the operation raises and the caller gets no solution or profile.
C6_NonConvergenceRaises ==
    (ret # Pending /\ \/ (trace.fsolve /\ trace.ier # 1)
                      \/ (trace.solve_ivp /\ ~ trace.success)) =>
        ret.status = "raised"

\* C7: riemann_problem called with a density or a pressure that is not
\* positive reports an error before any root-finding or region evaluation,
\* and returns no solution.
C7_InvalidInputRejected ==
    (call.op = "riemann_problem" /\ ~ ValidStates(call) /\ ret # Pending) =>
        /\ ret.status = "raised"
        /\ ~ trace.fsolve
        /\ ~ trace.regions

----------------------------------------------------------------------------
(* Numbers of the conservation analysis                                     *)
(*                                                                          *)
(* The analysis compares totals with the floor 1e-14, so its numbers are    *)
(* exact fractions n/d and the extensive quantities (mass, momentum,        *)
(* energy, angular momentum) are counted in quanta of 1e-15: a mass of 4 is *)
(* 4e-15.  Positions, velocities, specific energies and the relative errors *)
(* are plain numbers.  A fraction with d = 0 is a non-finite float: 1/0 is  *)
(* inf, -1/0 is -inf and 0/0 is nan, which is what numpy's division gives.  *)

F(n, d) == IF d = 0 THEN [n |-> Sgn(n), d |-> 0] ELSE Q(n, d)

FInt(k) == [n |-> k, d |-> 1]

FNaN == [n |-> 0, d |-> 0]

IsFinite(p) == p.d # 0

IsNaN(p) == p.d = 0 /\ p.n = 0

FAdd(p, q) ==
    IF p.d = 0 /\ q.d = 0 THEN (IF p.n = q.n THEN p ELSE FNaN)
    ELSE F(p.n * q.d + q.n * p.d, p.d * q.d)

FNeg(p) == [n |-> -p.n, d |-> p.d]

FSub(p, q) == FAdd(p, FNeg(q))

FMul(p, q) == F(p.n * q.n, p.d * q.d)

\* numpy's true division: a zero divisor gives inf or nan, never an exception
FDiv(p, q) ==
    IF p.d = 0 /\ q.d = 0 THEN FNaN
    ELSE F((IF q.n < 0 THEN -1 ELSE 1) * p.n * q.d, p.d * Abs(q.n))

FAbs(p) == [n |-> Abs(p.n), d |-> p.d]

\* p > q; False when either is nan
FGt(p, q) == ~ IsNaN(p) /\ ~ IsNaN(q) /\ p.n * q.d > q.n * p.d

SqrtDigits == 10^2

\* np.sqrt of a fraction, to two decimal places; exact on perfect squares
FSqrt(p) ==
    IF IsNaN(p) \/ p.n < 0 THEN FNaN
    ELSE IF p.d = 0 THEN p
    ELSE F(NearerRoot((p.n * SqrtDigits * SqrtDigits) \div p.d,
                      ISqrtBisect((p.n * SqrtDigits * SqrtDigits) \div p.d, 0, 46340)),
           SqrtDigits)

RECURSIVE FSum(_)
\* np.sum of a one-dimensional array
FSum(a) == IF a = << >> THEN FInt(0) ELSE FAdd(a[1], FSum(Tail(a)))

\* np.sum(a, axis=0) of an array of shape (N, dim)
FSumAxis0(a, d) == [k \in 1..d |-> FSum([i \in DOMAIN a |-> a[i][k]])]

\* np.linalg.norm of a vector
norm(v) == FSqrt(FSum([k \in DOMAIN v |-> FMul(v[k], v[k])]))

----------------------------------------------------------------------------
(* ParticleSnapshot                                                         *)

\* A snapshot with the particle arrays the analysis reads; pos and vel have
\* shape (num_particles, DIM).  DIM is kept beside the arrays, since an array
\* without rows still has it.
ParticleSnapshot(time, DIM, pos, vel, mass, dens, ene) ==
    [time |-> time, num_particles |-> Len(mass), shape |-> <<Len(mass), DIM>>,
     pos |-> pos, vel |-> vel, mass |-> mass, dens |-> dens, ene |-> ene]

\* the property dim: pos.shape[1]
dim(snapshot) == snapshot.shape[2]

Particles(snapshot) == 1..snapshot.num_particles

total_mass(snapshot) == FSum([i \in Particles(snapshot) |-> FInt(snapshot.mass[i])])

total_momentum(snapshot) ==
    FSumAxis0([i \in Particles(snapshot) |->
                  [k \in 1..dim(snapshot) |-> FInt(snapshot.mass[i] * snapshot.vel[i][k])]],
              dim(snapshot))

total_kinetic_energy(snapshot) ==
    FMul(F(1, 2),
         FSum([i \in Particles(snapshot) |->
                  FMul(FInt(snapshot.mass[i]),
                       FSum([k \in 1..dim(snapshot) |->
                                FInt(snapshot.vel[i][k] * snapshot.vel[i][k])]))]))

total_thermal_energy(snapshot) ==
    FSum([i \in Particles(snapshot) |-> FInt(snapshot.mass[i] * snapshot.ene[i])])

center_of_mass(snapshot) ==
    LET s == FSumAxis0([i \in Particles(snapshot) |->
                           [k \in 1..dim(snapshot) |->
                               FInt(snapshot.mass[i] * snapshot.pos[i][k])]],
                       dim(snapshot))
    IN  [k \in 1..dim(snapshot) |-> FDiv(s[k], total_mass(snapshot))]

center_of_mass_velocity(snapshot) ==
    LET p == total_momentum(snapshot)
    IN  [k \in 1..dim(snapshot) |-> FDiv(p[k], total_mass(snapshot))]

----------------------------------------------------------------------------
(* ConservationAnalyzer                                                     *)

\* None, told apart from every array the routines handle (none is empty)
None == << >>

FZero(d) == [k \in 1..d |-> FInt(0)]

FVec(v) == [k \in DOMAIN v |-> FInt(v[k])]

FVecSub(a, b) == [k \in DOMAIN a |-> FSub(a[k], b[k])]

\* np.cross of two 3-vectors
cross(r, v) ==
    <<FSub(FMul(r[2], v[3]), FMul(r[3], v[2])),
      FSub(FMul(r[3], v[1]), FMul(r[1], v[3])),
      FSub(FMul(r[1], v[2]), FMul(r[2], v[1]))>>

\* L_z = sum_i m_i (x_i v_y_i - y_i v_x_i)
AngularMomentum2d(snapshot, r, v) ==
    FSum([i \in Particles(snapshot) |->
             FMul(FInt(snapshot.mass[i]),
                  FSub(FMul(r[i][1], v[i][2]), FMul(r[i][2], v[i][1])))])

\* L = sum_i m_i (r_i x v_i)
AngularMomentum3d(snapshot, r, v) ==
    FSumAxis0([i \in Particles(snapshot) |->
                  [k \in 1..3 |-> FMul(FInt(snapshot.mass[i]), cross(r[i], v[i])[k])]],
              3)

\* snapshot.pos - com_pos and snapshot.vel - com_vel
Relative(snapshot, field, com) ==
    [i \in Particles(snapshot) |-> FVecSub(FVec(field[i]), com)]

\* com_pos and com_vel are None or vectors.  computed names what the routine
\* has evaluated when it ends.
compute_angular_momentum_2d(snapshot, com_pos, com_vel) ==
    IF dim(snapshot) # 2
    THEN [ret |-> Raised("ValueError"), computed |-> {}]
    ELSE [ret |-> Returned(AngularMomentum2d(
                      snapshot,
                      Relative(snapshot, snapshot.pos,
                               IF com_pos = None THEN center_of_mass(snapshot) ELSE com_pos),
                      Relative(snapshot, snapshot.vel,
                               IF com_vel = None THEN center_of_mass_velocity(snapshot)
                               ELSE com_vel))),
          computed |-> {"r", "v", "L_z"}]

compute_angular_momentum_3d(snapshot, com_pos, com_vel) ==
    IF dim(snapshot) # 3
    THEN [ret |-> Raised("ValueError"), computed |-> {}]
    ELSE [ret |-> Returned(AngularMomentum3d(
                      snapshot,
                      Relative(snapshot, snapshot.pos,
                               IF com_pos = None THEN center_of_mass(snapshot) ELSE com_pos),
                      Relative(snapshot, snapshot.vel,
                               IF com_vel = None THEN center_of_mass_velocity(snapshot)
                               ELSE com_vel))),
          computed |-> {"r", "v", "L"}]

\* The floor 1e-14 of the momentum and angular momentum branches, in quanta.
Floor == FInt(10)

ConservationReport(time, total_mass_, mass_error, momentum, momentum_magnitude, momentum_error, angular_momentum, angular_momentum_error, kinetic_energy, thermal_energy, total_energy, energy_error) ==
    [time |-> time, total_mass |-> total_mass_, mass_error |-> mass_error,
     momentum |-> momentum, momentum_magnitude |-> momentum_magnitude,
     momentum_error |-> momentum_error, angular_momentum |-> angular_momentum,
     angular_momentum_error |-> angular_momentum_error,
     kinetic_energy |-> kinetic_energy, thermal_energy |-> thermal_energy,
     total_energy |-> total_energy, energy_error |-> energy_error]

\* (a - a[0]) / ref over a series
RelativeTo(a, ref) == [i \in DOMAIN a |-> FDiv(FSub(a[i], a[1]), ref)]

\* The angular momentum array of the loop: None in 1D, a scalar per snapshot
\* in 2D, a 3-vector per snapshot otherwise, which stays zero unless dim is 3.
AngularMomenta(d, snapshots) ==
    IF d = 1 THEN None
    ELSE IF d = 2
    THEN [i \in DOMAIN snapshots |->
             compute_angular_momentum_2d(snapshots[i], None, None).ret.value]
    ELSE IF d = 3
    THEN [i \in DOMAIN snapshots |->
             compute_angular_momentum_3d(snapshots[i], None, None).ret.value]
    ELSE [i \in DOMAIN snapshots |-> FZero(3)]

\* momentum_error, and angular_momentum_error in 3D: relative above the floor
FlooredError(mag) == IF FGt(mag[1], Floor) THEN RelativeTo(mag, mag[1]) ELSE mag

\* angular_momentum_error, with L_mag the norms in 3D
AngularError(d, L, L_mag) ==
    IF d = 1 THEN None
    ELSE IF d = 2
    THEN (IF FGt(FAbs(L[1]), Floor) THEN RelativeTo(L, FAbs(L[1])) ELSE L)
    ELSE FlooredError(L_mag)

AngularRelative(d, L, L_mag) ==
    IF d = 1 THEN FALSE
    ELSE IF d = 2 THEN FGt(FAbs(L[1]), Floor)
    ELSE FGt(L_mag[1], Floor)

\* The errors and the report, from the series of the loop.  divided names the
\* quantities whose error series was obtained by dividing by the reference
\* value, calls the angular momentum routines that were called.
Errors(d, time, mass, momentum, momentum_mag, kinetic, thermal, energy, L, L_mag) ==
    [ret |-> Returned(ConservationReport(
                 time, mass, RelativeTo(mass, mass[1]),
                 momentum, momentum_mag, FlooredError(momentum_mag),
                 L, AngularError(d, L, L_mag),
                 kinetic, thermal, energy, RelativeTo(energy, energy[1]))),
     divided |-> {"mass", "energy"}
                 \cup (IF FGt(momentum_mag[1], Floor) THEN {"momentum"} ELSE {})
                 \cup (IF AngularRelative(d, L, L_mag) THEN {"angular_momentum"} ELSE {}),
     calls |-> IF d = 2 THEN {"compute_angular_momentum_2d"}
               ELSE IF d = 3 THEN {"compute_angular_momentum_3d"}
               ELSE {}]

Series(d, time, mass, momentum, kinetic, thermal, L) ==
    Errors(d, time, mass, momentum,
           [i \in DOMAIN momentum |-> norm(momentum[i])],
           kinetic, thermal,
           [i \in DOMAIN kinetic |-> FAdd(kinetic[i], thermal[i])],
           L,
           IF d \in {1, 2} THEN None ELSE [i \in DOMAIN L |-> norm(L[i])])

\* analyze_snapshots on a list of snapshots of one dimension: the loop over
\* the snapshots, then the errors.
analyze_snapshots(snapshots) ==
    IF snapshots = << >>
    THEN [ret |-> Raised("IndexError"), divided |-> {}, calls |-> {}]
    ELSE Series(dim(snapshots[1]),
                [i \in DOMAIN snapshots |-> snapshots[i].time],
                [i \in DOMAIN snapshots |-> total_mass(snapshots[i])],
                [i \in DOMAIN snapshots |-> total_momentum(snapshots[i])],
                [i \in DOMAIN snapshots |-> total_kinetic_energy(snapshots[i])],
                [i \in DOMAIN snapshots |-> total_thermal_energy(snapshots[i])],
                AngularMomenta(dim(snapshots[1]), snapshots))

\* np.max(np.abs(a)) of a series that is not empty: nan when a value is nan
MaxAbs(a) ==
    IF \E i \in DOMAIN a : IsNaN(a[i]) THEN FNaN
    ELSE CHOOSE m \in {FAbs(a[i]) : i \in DOMAIN a} :
             \A i \in DOMAIN a : ~ FGt(FAbs(a[i]), m)

\* summary() that takes np.max of the angular momentum error without looking
\* whether there is one
summary_unguarded(report) ==
    IF report.angular_momentum_error = None THEN Raised("TypeError")
    ELSE Returned([max_mass_error |-> MaxAbs(report.mass_error),
                   max_momentum_error |-> MaxAbs(report.momentum_error),
                   max_angular_momentum_error |-> MaxAbs(report.angular_momentum_error),
                   max_energy_error |-> MaxAbs(report.energy_error),
                   final_mass_error |-> report.mass_error[Len(report.mass_error)],
                   final_momentum_error |-> report.momentum_error[Len(report.momentum_error)],
                   final_energy_error |-> report.energy_error[Len(report.energy_error)]])

\* ConservationReport.summary
summary(report) ==
    Returned([max_mass_error |-> MaxAbs(report.mass_error),
              max_momentum_error |-> MaxAbs(report.momentum_error),
              max_angular_momentum_error |->
                  IF report.angular_momentum_error # None
                  THEN MaxAbs(report.angular_momentum_error)
                  ELSE FInt(0),
              max_energy_error |-> MaxAbs(report.energy_error),
              final_mass_error |-> report.mass_error[Len(report.mass_error)],
              final_momentum_error |-> report.momentum_error[Len(report.momentum_error)],
              final_energy_error |-> report.energy_error[Len(report.energy_error)]])

----------------------------------------------------------------------------
(* TheoreticalComparison: sedov_taylor and the comparisons with a snapshot  *)
(* These work on the fixed-point numbers of the solvers; a snapshot's plain *)
(* numbers k enter as k * Unit.                                             *)

\* np.mean: nan on an empty array
Mean(a) ==
    IF a = << >> THEN NaN
    ELSE IF \E i \in DOMAIN a : a[i] = NaN THEN NaN
    ELSE LET RECURSIVE S(_)
             S(k) == IF k = 0 THEN 0 ELSE a[k] + S(k - 1)
         IN  RoundDiv(S(Len(a)), Len(a))

\* np.sqrt(np.mean((a - b)**2))
L2Error(a, b) ==
    Sqrt(Mean([i \in DOMAIN a |-> Mul(Sub(a[i], b[i]), Sub(a[i], b[i]))]))

NumTheory == 200

\* np.linspace(0, stop, NumTheory)
linspace(stop) == [i \in 1..NumTheory |-> RoundDiv(stop * (i - 1), NumTheory - 1)]

\* np.interp(x, xp, fp) at one x
interp(x, xp, fp) ==
    LET n == Len(xp)
    IN  IF x >= xp[n] THEN fp[n]
        ELSE IF x < xp[1] THEN fp[1]
        ELSE LET j == CHOOSE k \in 1..(n - 1) : xp[k] <= x /\ x < xp[k + 1]
             IN  IF fp[j] = NaN \/ fp[j + 1] = NaN THEN NaN
                 ELSE fp[j] + RoundDiv((fp[j + 1] - fp[j]) * (x - xp[j]), xp[j + 1] - xp[j])

\* np.argsort of a short array
argsort(a) ==
    LET rank(i) == Cardinality({j \in DOMAIN a : a[j] < a[i] \/ (a[j] = a[i] /\ j < i)}) + 1
    IN  [k \in DOMAIN a |-> CHOOSE i \in DOMAIN a : rank(i) = k]

\* One pass of the loop of sedov_taylor, at radius ri.
SedovAt(ri, t, rho0, gamma, xi_s, alpha_, R_s, rho_s, vel) ==
    IF Lt(ri, R_s)
    THEN [rho |-> Mul(rho_s, PowInt(Sub(Unit, PowInt(Div(Div(ri, alpha_), xi_s), 2)), 2)),
          vel |-> vel,
          pres |-> DivQ(Mul(Mul(rho_s, PowInt(Sub(Unit, PowInt(Div(Div(ri, alpha_), xi_s), 2)), 2)),
                            PowInt(vel, 2)),
                        gamma)]
    ELSE [rho |-> rho0, vel |-> 0, pres |-> 0]

SedovArrays(cell) ==
    Returned(<<[i \in DOMAIN cell |-> cell[i].rho],
               [i \in DOMAIN cell |-> cell[i].vel],
               [i \in DOMAIN cell |-> cell[i].pres]>>)

SedovProfile(r, t, rho0, gamma, xi_s, alpha_) ==
    SedovArrays([i \in DOMAIN r |->
                    SedovAt(r[i], t, rho0, gamma, xi_s, alpha_, Mul(xi_s, alpha_),
                            MulQ(rho0, QDiv(QAdd(gamma, QInt(1)), QSub(gamma, QInt(1)))),
                            Div(MulQ(r[i], QDiv(QInt(2), QAdd(gamma, QInt(1)))), t))])

\* xi_s of sedov_taylor: 1.033 when dim is 2, 1.152 when dim is 3
xi_s(dim_) == IF dim_ = 2 THEN Fx(1033, 1000) ELSE Fx(1152, 1000)

sedov_taylor(r, t, E0, rho0, gamma, dim_) ==
    IF dim_ \notin {2, 3} THEN Raised("ValueError")
    ELSE IF rho0 = 0 THEN Raised("ZeroDivisionError")
    ELSE IF dim_ = 2
    THEN SedovProfile(r, t, rho0, gamma, xi_s(dim_),
                      Mul(Pow(Div(E0, rho0), Q(1, 4)), Pow(t, Q(1, 2))))
    ELSE SedovProfile(r, t, rho0, gamma, xi_s(dim_),
                      Mul(Pow(Div(E0, rho0), Q(1, 5)), Pow(t, Q(2, 5))))

ShockTubeComparison(snapshot, solution) ==
    [ret |-> Returned(<<solution,
                        L2Error([i \in Particles(snapshot) |-> snapshot.dens[i] * Unit],
                                solution.rho)>>),
     computed |-> {"x", "solution", "error"}]

\* fs is what the root-finder inside sod_shock_tube gives back.
compare_shock_tube(snapshot, gamma, x0, fs) ==
    IF dim(snapshot) # 1
    THEN [ret |-> Raised("ValueError"), computed |-> {}]
    ELSE ShockTubeComparison(
             snapshot,
             sod_shock_tube([i \in Particles(snapshot) |->
                                Sub(snapshot.pos[i][1] * Unit, x0)],
                            snapshot.time * Unit, gamma, fs).ret.value)

Sorted(a, idx) == [k \in DOMAIN idx |-> a[idx[k]]]

SedovComparison(snapshot, r_sim, idx, r_theory, theory) ==
    IF theory.status = "raised"
    THEN [ret |-> theory, computed |-> {"r_sim", "r_theory"}]
    ELSE [ret |-> Returned(
                      <<r_theory, theory.value[1],
                        <<Sorted(r_sim, idx),
                          [k \in DOMAIN idx |-> snapshot.dens[idx[k]] * Unit]>>,
                        L2Error([k \in DOMAIN idx |-> snapshot.dens[idx[k]] * Unit],
                                [k \in DOMAIN idx |->
                                    interp(r_sim[idx[k]], r_theory, theory.value[1])])>>),
          computed |-> {"r_sim", "r_theory", "rho_theory", "error"}]

SedovBins(snapshot, r_sim, r_theory, E0, rho0, gamma) ==
    SedovComparison(snapshot, r_sim, argsort(r_sim), r_theory,
                    sedov_taylor(r_theory, snapshot.time * Unit, E0, rho0, gamma,
                                 dim(snapshot)))

\* r_sim.max()
ArrayMax(a) == CHOOSE m \in {a[i] : i \in DOMAIN a} : \A i \in DOMAIN a : a[i] <= m

SedovRadii(snapshot, r_sim, E0, rho0, gamma) ==
    SedovBins(snapshot, r_sim, linspace(ArrayMax(r_sim)), E0, rho0, gamma)

compare_sedov(snapshot, E0, rho0, gamma) ==
    IF dim(snapshot) \notin {2, 3}
    THEN [ret |-> Raised("ValueError"), computed |-> {}]
    ELSE IF snapshot.num_particles = 0
    THEN \* r_sim.max() of an empty array
         [ret |-> Raised("ValueError"), computed |-> {"r_sim"}]
    ELSE SedovRadii(snapshot,
                    [i \in Particles(snapshot) |->
                        Sqrt(Unit * FSum([k \in 1..dim(snapshot) |->
                                 FInt(snapshot.pos[i][k] * snapshot.pos[i][k])]).n)],
                    E0, rho0, gamma)

----------------------------------------------------------------------------
(* The calls of the analysis routines                                       *)

MaxDim == 3

MaxSnapshots == 2

Dims == 1..MaxDim

\* the vector of dimension d with c on axis k (the zero vector when k > d)
Axis(d, k, c) == [j \in 1..d |-> IF j = k THEN c ELSE 0]

Masses == {0, 4, 12}

Snapshot(d, particles) ==
    ParticleSnapshot(0, d,
                     [i \in DOMAIN particles |-> particles[i].pos],
                     [i \in DOMAIN particles |-> particles[i].vel],
                     [i \in DOMAIN particles |-> particles[i].mass],
                     [i \in DOMAIN particles |-> 1],
                     [i \in DOMAIN particles |-> particles[i].ene])

PairVelocities(d) == {Axis(d, 1, 0), Axis(d, 1, 1), Axis(d, 2, 1), Axis(d, 2, -1)}

\* First snapshots: no particle; one particle on the first axis, at rest or
\* moving along it; two particles opposite each other on the first axis, the
\* second at rest or moving against the first.
FirstSnapshots(d) ==
    {Snapshot(d, << >>)}
    \cup {Snapshot(d, <<[pos |-> Axis(d, 1, 1), vel |-> Axis(d, 1, c), mass |-> m, ene |-> e]>>) :
             c \in {-1, 0, 1}, m \in Masses, e \in {0, 1}}
    \cup {Snapshot(d, <<[pos |-> Axis(d, 1, 1), vel |-> v, mass |-> m, ene |-> e],
                        [pos |-> Axis(d, 1, -1), vel |-> [j \in 1..d |-> -k * v[j]],
                         mass |-> 4, ene |-> e]>>) :
             v \in PairVelocities(d), m \in {4, 12}, e \in {0, 1}, k \in {0, 1}}

\* What a snapshot can become by the next output: the same particles, the
\* velocities reversed, every particle heated, or the last particle lost.
Later(s) ==
    {s,
     [s EXCEPT !.vel = [i \in DOMAIN s.vel |-> [j \in DOMAIN s.vel[i] |-> -s.vel[i][j]]]],
     [s EXCEPT !.ene = [i \in DOMAIN s.ene |-> s.ene[i] + 1]]}
    \cup (IF s.num_particles = 0 THEN {}
          ELSE LET keep == 1..(s.num_particles - 1)
               IN  {[s EXCEPT !.num_particles = @ - 1, !.shape = <<s.num_particles - 1, @[2]>>,
                              !.pos = [i \in keep |-> @[i]], !.vel = [i \in keep |-> @[i]],
                              !.mass = [i \in keep |-> @[i]], !.dens = [i \in keep |-> @[i]],
                              !.ene = [i \in keep |-> @[i]]]})

AtTime(s, t) == [s EXCEPT !.time = t]

RECURSIVE Sequences(_, _)
\* the snapshot lists of length n that start with s
Sequences(s, n) ==
    IF n = 1 THEN {<<s>>}
    ELSE {Append(q, AtTime(nxt, n - 1)) :
             q \in Sequences(s, n - 1), nxt \in Later(s)}

SnapshotLists ==
    {<< >>} \cup UNION {Sequences(s, n) : s \in UNION {FirstSnapshots(d) : d \in Dims},
                                          n \in 1..MaxSnapshots}

AnalysisCalls ==
    {[op |-> "analyze_snapshots", snapshots |-> q] : q \in SnapshotLists}
    \cup {[op |-> o, snapshot |-> s, com_pos |-> c, com_vel |-> c] :
             o \in {"compute_angular_momentum_2d", "compute_angular_momentum_3d"},
             s \in UNION {FirstSnapshots(d) : d \in Dims},
             c \in {None}}
    \cup {[op |-> o, snapshot |-> s, com_pos |-> FZero(dim(s)), com_vel |-> FZero(dim(s))] :
             o \in {"compute_angular_momentum_2d", "compute_angular_momentum_3d"},
             s \in UNION {FirstSnapshots(d) : d \in Dims}}
    \cup {[op |-> "compare_shock_tube", snapshot |-> AtTime(s, 1), gamma |-> gamma, x0 |-> x0] :
             s \in UNION {FirstSnapshots(d) : d \in Dims}, gamma \in Gammas,
             x0 \in Interfaces}
    \cup {[op |-> "compare_sedov", snapshot |-> AtTime(s, 1), E0 |-> E0, rho0 |-> Unit,
           gamma |-> gamma] :
             s \in UNION {FirstSnapshots(d) : d \in Dims}, gamma \in Gammas,
             E0 \in Energies}

AnalyzeSnapshots ==
    /\ call.op = "analyze_snapshots"
    /\ ret = Pending
    /\ \E r \in {analyze_snapshots(call.snapshots)} :
           /\ ret' = r.ret
           /\ trace' = [divided |-> r.divided, calls |-> r.calls]
    /\ UNCHANGED call

\* report.summary() on the report that analyze_snapshots has returned
Summary ==
    /\ call.op = "analyze_snapshots"
    /\ ret.status = "returned"
    /\ "summary" \notin DOMAIN trace
    /\ trace' = [divided |-> trace.divided, calls |-> trace.calls,
                 summary |-> summary(ret.value)]
    /\ UNCHANGED <<call, ret>>

ComputeAngularMomentum2d ==
    /\ call.op = "compute_angular_momentum_2d"
    /\ ret = Pending
    /\ \E r \in {compute_angular_momentum_2d(call.snapshot, call.com_pos, call.com_vel)} :
           /\ ret' = r.ret
           /\ trace' = [computed |-> r.computed]
    /\ UNCHANGED call

ComputeAngularMomentum3d ==
    /\ call.op = "compute_angular_momentum_3d"
    /\ ret = Pending
    /\ \E r \in {compute_angular_momentum_3d(call.snapshot, call.com_pos, call.com_vel)} :
           /\ ret' = r.ret
           /\ trace' = [computed |-> r.computed]
    /\ UNCHANGED call

CompareShockTube ==
    /\ call.op = "compare_shock_tube"
    /\ ret = Pending
    /\ \E fs \in (IF dim(call.snapshot) = 1
                  THEN fsolve("sod", SodEnv(call.gamma), SodGuess)
                  ELSE {[x |-> SodGuess, ier |-> 0]}) :
          \E r \in {compare_shock_tube(call.snapshot, call.gamma, call.x0, fs)} :
              /\ ret' = r.ret
              /\ trace' = [computed |-> r.computed]
    /\ UNCHANGED call

CompareSedov ==
    /\ call.op = "compare_sedov"
    /\ ret = Pending
    /\ \E r \in {compare_sedov(call.snapshot, call.E0, call.rho0, call.gamma)} :
           /\ ret' = r.ret
           /\ trace' = [computed |-> r.computed]
    /\ UNCHANGED call

InitAnalysis ==
    /\ call \in AnalysisCalls
    /\ ret = Pending
    /\ trace = NoTrace

NextAnalysis ==
    \/ AnalyzeSnapshots
    \/ Summary
    \/ ComputeAngularMomentum2d
    \/ ComputeAngularMomentum3d
    \/ CompareShockTube
    \/ CompareSedov

SpecAnalysis == InitAnalysis /\ [][NextAnalysis]_vars

----------------------------------------------------------------------------
(* Properties of the analysis routines                                      *)

ShapeDim(c) == c.snapshot.shape[2]

WrongDimension(c) ==
    \/ c.op = "compute_angular_momentum_2d" /\ ShapeDim(c) # 2
    \/ c.op = "compute_angular_momentum_3d" /\ ShapeDim(c) # 3
    \/ c.op = "compare_shock_tube" /\ ShapeDim(c) # 1
    \/ c.op = "compare_sedov" /\ ShapeDim(c) \notin {2, 3}

\* C8: compute_angular_momentum_2d on a snapshot that is not 2D,
\* compute_angular_momentum_3d on one that is not 3D, compare_shock_tube on one
\* that is not 1D and compare_sedov on one that is neither 2D nor 3D raise
\* ValueError and have computed nothing when they do.
C8_WrongDimensionRaises ==
    (ret # Pending /\ WrongDimension(call)) =>
        /\ ret = [status |-> "raised", exc |-> "ValueError"]
        /\ trace.computed = {}

\* The 2D angular momentum asked of a 1D snapshot that has particles.
C8_Witness ==
    /\ call.op = "compute_angular_momentum_2d"
    /\ ShapeDim(call) = 1 /\ call.snapshot.num_particles > 0
    /\ ret.status = "raised"

IsReport == call.op = "analyze_snapshots" /\ ret.status = "returned"

BelowFloor(p) == IsFinite(p) /\ FGt(Floor, FAbs(p))

ReportDim == dim(call.snapshots[1])

\* The reference value of the angular momentum: the first value in 2D, the
\* first magnitude in 3D.
AngularSeries(report) ==
    IF ReportDim = 2 THEN report.angular_momentum
    ELSE [i \in DOMAIN report.angular_momentum |-> norm(report.angular_momentum[i])]

\* C9: for mass, momentum, energy and angular momentum alike, a reference
\* value (the value at the first sample) of magnitude below the floor, zero
\* included, makes analyze_snapshots report the value series itself as the
\* error series, without dividing by the reference value.
C9_BelowFloorIsAbsolute ==
    IsReport =>
        LET report == ret.value
        IN  /\ BelowFloor(report.total_mass[1]) =>
                  report.mass_error = report.total_mass /\ "mass" \notin trace.divided
            /\ BelowFloor(report.momentum_magnitude[1]) =>
                  /\ report.momentum_error = report.momentum_magnitude
                  /\ "momentum" \notin trace.divided
            /\ BelowFloor(report.total_energy[1]) =>
                  report.energy_error = report.total_energy /\ "energy" \notin trace.divided
            /\ (ReportDim \in {2, 3} /\ BelowFloor(AngularSeries(report)[1])) =>
                  /\ report.angular_momentum_error = AngularSeries(report)
                  /\ "angular_momentum" \notin trace.divided

ConstantTotals(snapshots) ==
    \A i \in DOMAIN snapshots :
        /\ total_mass(snapshots[i]) = total_mass(snapshots[1])
        /\ total_momentum(snapshots[i]) = total_momentum(snapshots[1])
        /\ FAdd(total_kinetic_energy(snapshots[i]), total_thermal_energy(snapshots[i]))
             = FAdd(total_kinetic_energy(snapshots[1]), total_thermal_energy(snapshots[1]))

AllZero(series) == \A i \in DOMAIN series : series[i] = FInt(0)

\* C10: when total mass, momentum vector and kinetic + thermal energy are the
\* same in every snapshot, analyze_snapshots reports mass_error,
\* momentum_error and energy_error 0 at every sample, whatever the constant
\* values, a momentum that is zero or below the floor included.
C10_ConstantGivesZeroError ==
    (IsReport /\ ConstantTotals(call.snapshots)) =>
        /\ AllZero(ret.value.mass_error)
        /\ AllZero(ret.value.momentum_error)
        /\ AllZero(ret.value.energy_error)

AtOrAboveFloor(p) == IsFinite(p) /\ ~ FGt(Floor, FAbs(p))

\* C11: a reference value of magnitude at or above the floor makes
\* analyze_snapshots report the signed relative error (q_i - q_0) / q_0 for
\* mass, momentum, energy and angular momentum, the 2D angular momentum with
\* a negative first value included, so that the first error is 0.
C11_SignedRelativeError ==
    IsReport =>
        \A report \in {ret.value} :
            /\ AtOrAboveFloor(report.total_mass[1]) =>
                  /\ report.mass_error
                       = RelativeTo(report.total_mass, report.total_mass[1])
                  /\ report.mass_error[1] = FInt(0)
            /\ AtOrAboveFloor(report.momentum_magnitude[1]) =>
                  /\ report.momentum_error
                       = RelativeTo(report.momentum_magnitude, report.momentum_magnitude[1])
                  /\ report.momentum_error[1] = FInt(0)
            /\ AtOrAboveFloor(report.total_energy[1]) =>
                  /\ report.energy_error
                       = RelativeTo(report.total_energy, report.total_energy[1])
                  /\ report.energy_error[1] = FInt(0)
            /\ (ReportDim \in {2, 3} /\ AtOrAboveFloor(AngularSeries(report)[1])) =>
                  /\ report.angular_momentum_error
                       = RelativeTo(AngularSeries(report), AngularSeries(report)[1])
                  /\ report.angular_momentum_error[1] = FInt(0)

OneDimensional(snapshots) ==
    snapshots # << >> /\ \A i \in DOMAIN snapshots : dim(snapshots[i]) = 1

\* C12: on a list of 1D snapshots analyze_snapshots returns a report, calls
\* no angular momentum routine and leaves angular_momentum and
\* angular_momentum_error None; summary() on that report returns, with
\* max_angular_momentum_error 0.0.
C12_OneDimensionalHasNoAngularMomentum ==
    (call.op = "analyze_snapshots" /\ ret # Pending /\ OneDimensional(call.snapshots)) =>
        /\ ret.status = "returned"
        /\ trace.calls = {}
        /\ ret.value.angular_momentum = None
        /\ ret.value.angular_momentum_error = None
        /\ "summary" \in DOMAIN trace =>
              /\ trace.summary.status = "returned"
              /\ trace.summary.value.max_angular_momentum_error = FInt(0)

\* The summary of the report on two 1D snapshots with particles has been taken.
C12_Witness ==
    /\ call.op = "analyze_snapshots"
    /\ OneDimensional(call.snapshots)
    /\ Len(call.snapshots) = 2
    /\ call.snapshots[1].num_particles > 0
    /\ "summary" \in DOMAIN trace
    /\ trace.summary.status = "returned"

----------------------------------------------------------------------------
(* riemann_problem called twice by one caller                               *)
(*                                                                          *)
(* The caller holds one query array (call.x) and passes it to every call.   *)
(* fsolve keeps nothing between calls: what it gives back for the repeated  *)
(* call is drawn once (call.fs) and is the same both times.  ret is the     *)
(* list of what the calls have returned so far.                             *)

RepeatedCalls ==
    {RiemannCall(QueryGrid, t, LR[1], LR[2], gamma, x0) :
        t \in Times, gamma \in Gammas, x0 \in Interfaces,
        LR \in {<<SodLeft, SodRight>>, <<SodRight, SodLeft>>}}

\* The call made in between: other states, another time and interface.
BetweenCalls ==
    {RiemannCall(QueryGrid, Fx(3, 4), [rho |-> Unit, P |-> Unit, u |-> Unit], SodRight,
                 Q(7, 5), x0) : x0 \in Interfaces}

\* The call c made on the array the caller holds now
OnArray(c, x) == [c EXCEPT !.x = x]

InitRepeat ==
    /\ \E c \in RepeatedCalls, b \in BetweenCalls :
          \E fs \in fsolve("riemann", RiemannEnv(c), P_guess(c.P_L, c.P_R)),
             fb \in fsolve("riemann", RiemannEnv(b), P_guess(b.P_L, b.P_R)) :
              call = [op |-> "riemann_problem twice", args |-> c, fs |-> fs,
                      between |-> b, fs_between |-> fb, x |-> c.x, pc |-> 0]
    /\ ret = << >>
    /\ trace = NoTrace

FirstCall ==
    /\ call.op = "riemann_problem twice"
    /\ call.pc = 0
    /\ \E r \in {RiemannResult(OnArray(call.args, call.x), call.fs)} :
           /\ ret' = <<r.ret>>
           /\ trace' = r.trace
    /\ call' = [call EXCEPT !.pc = 1, !.x = QueryAfter(call.x, call.args.x_interface)]

CallBetween ==
    /\ call.op = "riemann_problem twice"
    /\ call.pc = 1
    /\ \E r \in {RiemannResult(OnArray(call.between, call.x), call.fs_between)} :
           /\ ret' = Append(ret, r.ret)
           /\ trace' = r.trace
    /\ call' = [call EXCEPT !.pc = 2, !.x = QueryAfter(call.x, call.between.x_interface)]

SecondCall ==
    /\ call.op = "riemann_problem twice"
    /\ call.pc \in {1, 2}
    /\ \E r \in {RiemannResult(OnArray(call.args, call.x), call.fs)} :
           /\ ret' = Append(ret, r.ret)
           /\ trace' = r.trace
    /\ call' = [call EXCEPT !.pc = 3, !.x = QueryAfter(call.x, call.args.x_interface)]

NextRepeat == FirstCall \/ CallBetween \/ SecondCall

SpecRepeat == InitRepeat /\ [][NextRepeat]_vars

----------------------------------------------------------------------------
(* Further properties of riemann_problem                                    *)

EqualStates(c) == c.rho_L = c.rho_R /\ c.P_L = c.P_R /\ c.u_L = c.u_R

----------------------------------------------------------------------------
(* SedovTaylorSolution: the methods of an instance                          *)
(*                                                                          *)
(* A caller constructs one instance and calls its methods.  call.self is    *)
(* the instance (None before the constructor has run), call.method and      *)
(* call.args the last method called, ret what it returned and trace what it *)
(* used on the way.                                                         *)

\* abs(gamma - c) < 0.01
WithinHundredth(gamma, c) == Abs(gamma.n * c.d - c.n * gamma.d) * 100 < gamma.d * c.d

\* C_j: 2 pi for j = 1, 4 pi for j = 2, 1.0 otherwise
GeometricFactor(j) ==
    IF j = 1 THEN Fx(6283, 1000) ELSE IF j = 2 THEN Fx(12566, 1000) ELSE Unit

\* _compute_energy_constant; integral is np.trapz(integrand * xi**j, xi) over
\* the stored tables xi, V, Z, G.
compute_energy_constant(self, integral) ==
    IF self.params.dimension = 2 /\ WithinHundredth(self.params.gamma, Q(7, 5))
    THEN Fx(1033, 1000)
    ELSE IF self.params.dimension = 3 /\ WithinHundredth(self.params.gamma, Q(5, 3))
    THEN Fx(1152, 1000)
    ELSE Pow(Div(Unit, Mul(GeometricFactor(self.params.dimension - 1), integral)),
             Q(1, (self.params.dimension - 1) + 2))

\* shock_radius: xi0 * factor * t**alpha, with xi0 what
\* _compute_energy_constant returns
shock_radius(self, t, xi0) ==
    Mul(Mul(xi0, Pow(Div(self.params.E0, self.params.rho0),
                     Q(1, (self.params.dimension - 1) + 2))),
        Pow(t, alpha(self.params)))

\* 1e-6, the pressure and the energy written beyond the shock: the least
\* positive value of the grid
VACUUM == 1

\* What solution_at_time writes at one radius r <= R: the interpolators of
\* the stored tables at xi = r / R, scaled with the current parameters.
\* tables names the profile the interpolators were built on.
Inside(self, xi, dR_dt) ==
    [region |-> "profile", tables |-> self.profile, xi |-> xi,
     rho0 |-> self.params.rho0, dR_dt |-> dR_dt, gamma |-> self.params.gamma]

\* Every value beyond the shock zeroed, the density included.
BeyondZeroed(self) ==
    [region |-> "background", rho |-> 0, v |-> 0, P |-> VACUUM, e |-> VACUUM]

\* np.where(mask, ., rho0 / 0 / 1e-6 / 1e-6) where the mask is False
Beyond(self) ==
    [region |-> "background", rho |-> self.params.rho0, v |-> 0,
     P |-> VACUUM, e |-> VACUUM]

\* dR_dt = alpha * R / t if t > 0 else 0
ShockVelocity(self, R, t) == IF t > 0 THEN Div(MulQ(R, alpha(self.params)), t) ELSE 0

SolutionCells(self, r, R, dR_dt) ==
    [i \in DOMAIN r |-> IF Le(r[i], R) THEN Inside(self, Div(r[i], R), dR_dt)
                        ELSE Beyond(self)]

\* solution_at_time(r, t), with xi0 what _compute_energy_constant returns
solution_at_time(self, r, t, xi0) ==
    [r |-> r,
     cells |-> SolutionCells(self, r, shock_radius(self, t, xi0),
                             ShockVelocity(self, shock_radius(self, t, xi0), t)),
     R_shock |-> shock_radius(self, t, xi0),
     time |-> t]

QueryRadii == <<0, Fx(1, 2), Unit, 2 * Unit, 4 * Unit>>

SedovGammas == Gammas \cup {Q(281, 200)}

SessionParams ==
    {SedovParameters(E0, rho0, gamma, dimension) :
        E0 \in {2 * Unit}, rho0 \in {Unit}, gamma \in SedovGammas, dimension \in {2, 3}}

SedovTimes == {0, Fx(1, 10), Unit}

\* What np.trapz over the stored tables can come to.
Integrals == {Fx(1, 10), Fx(1, 4)}

Invoke(method, args) == [call EXCEPT !.method = method, !.args = args]

\* TheoreticalComparison.sedov_taylor(r, t, E0, rho0, gamma, dim)
SedovTaylorCalls ==
    {[op |-> "sedov_taylor", r |-> QueryRadii, t |-> t, E0 |-> E0, rho0 |-> rho0,
      gamma |-> gamma, dim |-> d] :
        t \in SedovTimes, E0 \in Energies, rho0 \in Densities, gamma \in Gammas,
        d \in 1..3}

InitSedov ==
    /\ call \in {[op |-> "SedovTaylorSolution methods", params |-> p, self |-> None,
                  method |-> "none", args |-> << >>, changed |-> FALSE] : p \in SessionParams}
                 \cup SedovTaylorCalls
    /\ ret = Pending
    /\ trace = NoTrace

\* solver = SedovTaylorSolution(params)
Construct ==
    /\ call.op = "SedovTaylorSolution methods"
    /\ call.self = None
    /\ \E ivp \in solve_ivp(call.params.gamma, omega(call.params),
                            call.params.dimension - 1, <<Unit, 0>>,
                            SedovY0(call.params)) :
          \E r \in {SedovTaylorSolution(call.params, ivp)} :
              /\ call' = [call EXCEPT !.self = r.ret.value, !.method = "__init__"]
              /\ ret' = Returned(None)
              /\ trace' = r.trace

\* solver._compute_energy_constant()
ComputeEnergyConstant ==
    /\ call.op = "SedovTaylorSolution methods"
    /\ call.self # None
    /\ \E integral \in Integrals :
          /\ call' = Invoke("_compute_energy_constant", << >>)
          /\ ret' = Returned(compute_energy_constant(call.self, integral))
          /\ trace' = [integral |-> integral]

\* solver.shock_radius(t)
ShockRadius ==
    /\ call.op = "SedovTaylorSolution methods"
    /\ call.self # None
    /\ \E t \in SedovTimes, integral \in Integrals :
          \E xi0 \in {compute_energy_constant(call.self, integral)} :
              /\ call' = Invoke("shock_radius", <<t>>)
              /\ ret' = Returned(shock_radius(call.self, t, xi0))
              /\ trace' = [integral |-> integral, xi0 |-> xi0]

\* solver.solution_at_time(r, t)
SolutionAtTime ==
    /\ call.op = "SedovTaylorSolution methods"
    /\ call.self # None
    /\ \E t \in SedovTimes, integral \in Integrals :
          \E xi0 \in {compute_energy_constant(call.self, integral)} :
              /\ call' = Invoke("solution_at_time", <<QueryRadii, t>>)
              /\ ret' = Returned(solution_at_time(call.self, QueryRadii, t, xi0))
              /\ trace' = [integral |-> integral, xi0 |-> xi0]

\* solver.params = SedovParameters(...): the attribute is assigned and
\* nothing else runs.  The model follows an instance through one change.
ReplaceParams ==
    /\ call.op = "SedovTaylorSolution methods"
    /\ call.self # None
    /\ ~ call.changed
    /\ \E gamma \in SedovGammas, dimension \in {2, 3} :
          call' = [call EXCEPT !.self.params = SedovParameters(Unit, Fx(1, 8), gamma, dimension),
                               !.method = "params =", !.args = << >>,
                               !.changed = TRUE]
    /\ ret' = Returned(None)
    /\ trace' = NoTrace

\* solver.params.gamma = gamma or solver.params.dimension = dimension: the
\* dataclass is not frozen
AssignField ==
    /\ call.op = "SedovTaylorSolution methods"
    /\ call.self # None
    /\ ~ call.changed
    /\ \/ \E gamma \in SedovGammas :
             call' = [call EXCEPT !.self.params.gamma = gamma,
                                  !.method = "params.gamma =", !.args = << >>,
                                  !.changed = TRUE]
       \/ \E dimension \in {2, 3} :
             call' = [call EXCEPT !.self.params.dimension = dimension,
                                  !.method = "params.dimension =", !.args = << >>,
                                  !.changed = TRUE]
    /\ ret' = Returned(None)
    /\ trace' = NoTrace

SedovTaylor ==
    /\ call.op = "sedov_taylor"
    /\ ret = Pending
    /\ ret' = sedov_taylor(call.r, call.t, call.E0, call.rho0, call.gamma, call.dim)
    /\ trace' = IF call.dim \in {2, 3} THEN [xi_s |-> xi_s(call.dim)] ELSE NoTrace
    /\ UNCHANGED call

NextSedov ==
    \/ Construct
    \/ ComputeEnergyConstant
    \/ ShockRadius
    \/ SolutionAtTime
    \/ ReplaceParams
    \/ AssignField
    \/ SedovTaylor

SpecSedov == InitSedov /\ [][NextSedov]_vars

\* C15: shock_radius(t) is xi0 * (E0 / rho0)^(1 / (dim + 2)) * t^(2 / (dim + 2))
\* for dim 2 and 3: the exponent of E0 / rho0 has the denominator of the
\* exponent of t, whatever E0 and rho0.
C15_ShockRadiusFormula ==
    (call.op = "SedovTaylorSolution methods" /\ call.method = "shock_radius") =>
        ret.value = Mul(Mul(trace.xi0,
                            Pow(Div(call.self.params.E0, call.self.params.rho0),
                                Q(1, call.self.params.dimension + 2))),
                        Pow(call.args[1], Q(2, call.self.params.dimension + 2)))

\* The profile that _compute_similarity_solution builds for params
BuiltFor(tables, params) ==
    /\ tables.gamma = params.gamma
    /\ tables.omega = omega(params)
    /\ tables.j = params.dimension - 1
    /\ tables.y0 = SedovY0(params)

\* C16: whatever changes were made to the parameters of an instance, the
\* tables V, Z, G that solution_at_time uses are those built for the current
\* parameters.
C16_ProfileFollowsParameters ==
    (call.op = "SedovTaylorSolution methods" /\ call.method = "solution_at_time") =>
        \A i \in DOMAIN ret.value.cells :
            ret.value.cells[i].region = "profile" =>
                BuiltFor(ret.value.cells[i].tables, call.self.params)

\* R_s of sedov_taylor: xi_s * (E0 / rho0)^(1 / (dim + 2)) * t^(2 / (dim + 2))
ShockRadiusOf(c) ==
    Mul(IF c.dim = 2 THEN Fx(1033, 1000) ELSE Fx(1152, 1000),
        Mul(Pow(Div(c.E0, c.rho0), Q(1, c.dim + 2)), Pow(c.t, Q(2, c.dim + 2))))

\* The profile of sedov_taylor at radius ri inside the shock
RescaledDensity(c, ri) ==
    Mul(MulQ(c.rho0, QDiv(QAdd(c.gamma, QInt(1)), QSub(c.gamma, QInt(1)))),
        PowInt(Sub(Unit, PowInt(Div(Div(ri, Div(ShockRadiusOf(c),
                                          IF c.dim = 2 THEN Fx(1033, 1000)
                                          ELSE Fx(1152, 1000))),
                                    IF c.dim = 2 THEN Fx(1033, 1000) ELSE Fx(1152, 1000)),
                                2)),
               2))

\* C17: solution_at_time and sedov_taylor return the background state at
\* every radius strictly beyond the shock radius R(t), that is the density
\* rho0, the velocity 0 and the evaluator's vacuum pressure, and the rescaled
\* profile at every radius strictly inside.
C17_BackgroundBeyondShock ==
    /\ (call.op = "SedovTaylorSolution methods" /\ call.method = "solution_at_time") =>
          \A i \in DOMAIN ret.value.r :
              /\ Gt(ret.value.r[i], ret.value.R_shock) =>
                    /\ ret.value.cells[i].region = "background"
                    /\ ret.value.cells[i].rho = call.self.params.rho0
                    /\ ret.value.cells[i].v = 0
                    /\ ret.value.cells[i].P = VACUUM
              /\ Lt(ret.value.r[i], ret.value.R_shock) =>
                    /\ ret.value.cells[i].region = "profile"
                    /\ ret.value.cells[i].xi = Div(ret.value.r[i], ret.value.R_shock)
    /\ (call.op = "sedov_taylor" /\ ret.status = "returned") =>
          \A i \in DOMAIN call.r :
              /\ Gt(call.r[i], ShockRadiusOf(call)) =>
                    /\ ret.value[1][i] = call.rho0
                    /\ ret.value[2][i] = 0
                    /\ ret.value[3][i] = 0
              /\ Lt(call.r[i], ShockRadiusOf(call)) =>
                    ret.value[1][i] = RescaledDensity(call, call.r[i])

\* solution_at_time has returned for radii on both sides of the shock.
C17_Witness ==
    /\ call.op = "SedovTaylorSolution methods" /\ call.method = "solution_at_time"
    /\ \E i, k \in DOMAIN ret.value.r :
          /\ Gt(ret.value.r[i], ret.value.R_shock)
          /\ Lt(ret.value.r[k], ret.value.R_shock)
          /\ ret.value.r[k] > 0

Tabulated(dimension, gamma) ==
    \/ dimension = 2 /\ WithinHundredth(gamma, Q(7, 5))
    \/ dimension = 3 /\ WithinHundredth(gamma, Q(5, 3))

\* C18: _compute_energy_constant returns 1.033 exactly when dimension is 2
\* and gamma is within 0.01 of 1.4, 1.152 exactly when dimension is 3 and
\* gamma is within 0.01 of 5/3, and otherwise (1 / (C_j * integral))^(1/(j+2))
\* from the stored profile, with C_j = 2 pi in 2D and 4 pi in 3D; the two
\* tabulated constants are used for no other pair of gamma and dimension,
\* by _compute_energy_constant or by sedov_taylor.
C18_TabulatedOnlyForTwoCases ==
    /\ (call.op = "SedovTaylorSolution methods" /\ call.method = "_compute_energy_constant") =>
          /\ (call.self.params.dimension = 2
                /\ WithinHundredth(call.self.params.gamma, Q(7, 5))) =>
                ret.value = Fx(1033, 1000)
          /\ (call.self.params.dimension = 3
                /\ WithinHundredth(call.self.params.gamma, Q(5, 3))) =>
                ret.value = Fx(1152, 1000)
          /\ ~ Tabulated(call.self.params.dimension, call.self.params.gamma) =>
                ret.value = Pow(Div(Unit, Mul(IF call.self.params.dimension = 2
                                              THEN Fx(6283, 1000) ELSE Fx(12566, 1000),
                                              trace.integral)),
                                Q(1, call.self.params.dimension + 1))
    /\ (call.op = "sedov_taylor" /\ ret.status = "returned") =>
          (trace.xi_s \in {Fx(1033, 1000), Fx(1152, 1000)}
              => Tabulated(call.dim, call.gamma))

\* The value v is the fraction n/d at the resolution of the fixed point
IsFraction(v, n, d) == v # NaN /\ 2 * Abs(v * d - n * Unit) <= d

\* The tables of self hold the post-shock values of gamma at xi = 1
ShockEndValues(self, g) ==
    /\ IsFraction(self.V.last, 2 * g.d, g.n + g.d)
    /\ IsFraction(self.Z.last, g.n + g.d, g.n - g.d)
    /\ IsFraction(self.G.last, 2 * g.d, g.n + g.d)

\* C19: the tabulated profile of a newly built SedovTaylorSolution has, at
\* xi = 1 (the last grid point), V = 2/(gamma+1), Z = (gamma+1)/(gamma-1) and
\* G = 2/(gamma+1), and at xi = 0 (the first grid point) V = 0.
C19_ProfileEndValues ==
    (call.op = "SedovTaylorSolution methods" /\ call.method = "__init__") =>
        /\ ShockEndValues(call.self, call.self.params.gamma)
        /\ call.self.V.first = 0

-----------------------------------------------------------------------------
\* analysis/binary_reader.py: BinarySnapshotReader.read() of one .sph file.
\* A file is its length in bytes and the values stored in the header fields
\* that the reader looks at; f.read(n) gives the n bytes at the position, or
\* as many as are left, and moves the position past them.

MAGIC_NUMBER == 1397770241

HEADER_SIZE == 80

Unpack(n) == [size |-> n, unpack |-> TRUE]

Bytes(n) == [size |-> n, unpack |-> FALSE]

\* The reads of _read_header in order: magic, version, dimension,
\* particle_count ('I'), time and the three unit factors ('d'), the three
\* unit names (16 bytes each, not unpacked).
HeaderReads == <<Unpack(4), Unpack(4), Unpack(4), Unpack(4), Unpack(8), Unpack(8), Unpack(8), Unpack(8), Bytes(16), Bytes(16), Bytes(16)>>

\* len(f.read(n)) with the file at pos
FRead(size, pos, n) == IF size - pos < n THEN size - pos ELSE n

\* The reads from the i-th on, with the file at pos: where the file ends up,
\* whether struct.unpack was handed fewer bytes than its format needs, and
\* whether every read so far got the bytes it asked for (whole).
RECURSIVE ReadFields(_, _, _, _)
ReadFields(size, pos, i, whole) ==
    IF i > Len(HeaderReads) THEN [pos |-> pos, short |-> FALSE, whole |-> whole]
    ELSE IF HeaderReads[i].unpack /\ FRead(size, pos, HeaderReads[i].size) < HeaderReads[i].size
         THEN [pos |-> pos + FRead(size, pos, HeaderReads[i].size), short |-> TRUE, whole |-> FALSE]
    ELSE ReadFields(size, pos + FRead(size, pos, HeaderReads[i].size), i + 1, whole /\ FRead(size, pos, HeaderReads[i].size) = HeaderReads[i].size)

BinarySnapshotHeader(file) ==
    [magic_number |-> file.magic_number, version |-> file.version, dimension |-> file.dimension, particle_count |-> file.particle_count]

\* self._read_header(f) on a file just opened
read_header(file) ==
    IF ReadFields(file.size, 0, 1, TRUE).short THEN Raised("struct.error")
    ELSE Returned(BinarySnapshotHeader(file))

\* pos (dim*8) + vel (dim*8) + acc (dim*8) + 8 scalars (8*8) + 3 ints (3*4)
bytes_per_particle(dimension) == dimension * 8 * 3 + 8 * 8 + 3 * 4

Array(name, itemsize, columns) == [name |-> name, itemsize |-> itemsize, columns |-> columns]

\* The read_array calls of _read_particles in order, each of shape
\* (n, columns): three 'f8' arrays of dim columns, eight 'f8' arrays and three
\* 'i4' arrays of one column.
ParticleArrays(dimension) ==
    <<Array("pos", 8, dimension), Array("vel", 8, dimension), Array("acc", 8, dimension), Array("mass", 8, 1), Array("dens", 8, 1), Array("pres", 8, 1), Array("ene", 8, 1), Array("sml", 8, 1), Array("alpha", 8, 1), Array("gradh", 8, 1), Array("shock_sensor", 8, 1), Array("id", 4, 1), Array("neighbor", 4, 1), Array("ene_floored", 4, 1)>>

\* offset when the k-th read_array is called: every earlier call has moved
\* it by the size of a whole array of n rows
RECURSIVE ArrayOffset(_, _, _)
ArrayOffset(arrays, n, k) ==
    IF k = 1 THEN 0
    ELSE ArrayOffset(arrays, n, k - 1) + n * arrays[k - 1].columns * arrays[k - 1].itemsize

\* read_array: the bytes of particle_bytes that row i (from 0) of the k-th
\* array is made of, first byte and the byte after the last
read_array(arrays, n, k) ==
    [i \in 0..(n - 1) |->
        [from |-> ArrayOffset(arrays, n, k) + i * arrays[k].columns * arrays[k].itemsize,
         to |-> ArrayOffset(arrays, n, k) + (i + 1) * arrays[k].columns * arrays[k].itemsize]]

\* self._read_particles(f, header) with the file at pos: one read of all the
\* particle bytes; the arrays cut from fewer bytes than n particles need
\* cannot be reshaped.  data gives for each array the bytes of each row.
read_particles(file, pos, header) ==
    IF FRead(file.size, pos, bytes_per_particle(header.dimension) * header.particle_count) < bytes_per_particle(header.dimension) * header.particle_count
    THEN Raised("ValueError")
    ELSE Returned([header |-> header, data_from |-> pos, data_bytes |-> bytes_per_particle(header.dimension) * header.particle_count,
                   data |-> [k \in 1..Len(ParticleArrays(header.dimension)) |-> read_array(ParticleArrays(header.dimension), header.particle_count, k)],
                   parsed |-> ArrayOffset(ParticleArrays(header.dimension), header.particle_count, Len(ParticleArrays(header.dimension)) + 1)])

MaxParticles == 2

SnapshotFiles ==
    {[size |-> size + bytes_per_particle(d) * stored, magic_number |-> magic, version |-> version, dimension |-> d, particle_count |-> n] :
        size \in {0, 12, 80, 90, 96}, stored \in 0..MaxParticles,
        magic \in {MAGIC_NUMBER, 0}, version \in {1, 2}, d \in 1..3,
        n \in 0..MaxParticles}

InitReader ==
    /\ call \in {[op |-> "BinarySnapshotReader.read", file |-> file, pos |-> 0, pc |-> "open", header |-> None] : file \in SnapshotFiles}
    /\ ret = Pending
    /\ trace = NoTrace

\* header = self._read_header(f)
ReadHeader ==
    /\ call.op = "BinarySnapshotReader.read"
    /\ call.pc = "open"
    /\ \E r \in {read_header(call.file)} :
          /\ call' = [call EXCEPT !.pos = ReadFields(call.file.size, 0, 1, TRUE).pos,
                                  !.pc = IF r.status = "raised" THEN "closed" ELSE "header",
                                  !.header = IF r.status = "raised" THEN None ELSE r.value]
          /\ ret' = IF r.status = "raised" THEN r ELSE Pending
          /\ trace' = [header_bytes |-> ReadFields(call.file.size, 0, 1, TRUE).pos,
                      whole |-> ReadFields(call.file.size, 0, 1, TRUE).whole]

\* The version looked at first.
validate_version_first(header) ==
    IF header.version # 1 THEN "Unsupported version"
    ELSE IF header.magic_number # MAGIC_NUMBER THEN "Invalid magic number"
    ELSE "valid"

\* The two checks of read() on the header, in their order: which one raises
validate(header) ==
    IF header.magic_number # MAGIC_NUMBER THEN "Invalid magic number"
    ELSE IF header.version # 1 THEN "Unsupported version"
    ELSE "valid"

\* the two checks of read() on the header
ValidateHeader ==
    /\ call.op = "BinarySnapshotReader.read"
    /\ call.pc = "header"
    /\ call' = [call EXCEPT !.pc = IF validate(call.header) # "valid" THEN "closed" ELSE "valid"]
    /\ ret' = IF validate(call.header) # "valid" THEN Raised("ValueError") ELSE Pending
    /\ trace' = [header_bytes |-> trace.header_bytes, whole |-> trace.whole, message |-> validate(call.header)]

\* data = self._read_particles(f, header); return header, data
ReadParticles ==
    /\ call.op = "BinarySnapshotReader.read"
    /\ call.pc = "valid"
    /\ \E r \in {read_particles(call.file, call.pos, call.header)} :
          /\ call' = [call EXCEPT !.pos = call.pos + FRead(call.file.size, call.pos, bytes_per_particle(call.header.dimension) * call.header.particle_count),
                                  !.pc = "closed"]
          /\ ret' = r
    /\ UNCHANGED trace

NextReader == ReadHeader \/ ValidateHeader \/ ReadParticles

SpecReader == InitReader /\ [][NextReader]_vars

\* C20: the header takes HEADER_SIZE = 80 bytes: once _read_header has got
\* all its fields from the file, the file is at byte 80, and the particle
\* data that read() returns start at byte 80.
C20_HeaderIsEightyBytes ==
    (call.op = "BinarySnapshotReader.read" /\ call.header # None /\ trace.whole) =>
        /\ trace.header_bytes = HEADER_SIZE
        /\ (ret.status = "returned" => ret.value.data_from = HEADER_SIZE)

\* C21: the particle data are consecutive records of B = 24*dim + 76 bytes:
\* for n >= 1 particles exactly n*B bytes are consumed, and every field of
\* particle i is made of bytes in [i*B, (i+1)*B) of the particle data.
C21_ParticleRecordsAreConsecutive ==
    (call.op = "BinarySnapshotReader.read" /\ ret.status = "returned" /\ ret.value.header.particle_count >= 1) =>
        \A B \in {24 * ret.value.header.dimension + 76} :
            /\ ret.value.data_bytes = ret.value.header.particle_count * B
            /\ ret.value.parsed = ret.value.header.particle_count * B
            /\ \A k \in DOMAIN ret.value.data : \A i \in DOMAIN ret.value.data[k] :
                  /\ i * B <= ret.value.data[k][i].from
                  /\ ret.value.data[k][i].to <= (i + 1) * B

\* The header has been read and checked
Validated == call.op = "BinarySnapshotReader.read" /\ call.header # None /\ call.pc # "header"

\* C22: when the magic number of the header is not 0x53504801 or its version
\* is not 1, read() raises ValueError, the file is left where the header
\* ended (no particle bytes are read) and nothing is returned; a wrong magic
\* number is reported even when the version is wrong too.
C22_BadHeaderRaisesValueError ==
    (Validated /\ (call.header.magic_number # MAGIC_NUMBER \/ call.header.version # 1)) =>
        /\ ret = Raised("ValueError")
        /\ call.pc = "closed"
        /\ call.pos = trace.header_bytes
        /\ trace.message = (IF call.header.magic_number # MAGIC_NUMBER THEN "Invalid magic number" ELSE "Unsupported version")

C22_Witness ==
    /\ Validated
    /\ call.header.magic_number # MAGIC_NUMBER
    /\ call.header.version # 1
    /\ ret = Raised("ValueError")
    /\ call.file.size > trace.header_bytes

-----------------------------------------------------------------------------
\* riemann_problem: the waves and the regions

\* A Riemann problem between valid states at a time t > 0 that the
\* root-finder solved
SolvedProblem ==
    /\ call.op = "riemann_problem"
    /\ ret.status = "returned"
    /\ trace.regions
    /\ trace.ier = 1
    /\ ValidStates(call)
    /\ call.t > 0

\* C23: at t > 0 the wave boundaries of a solved Riemann problem are ordered
\* from left to right: left fan head <= left fan tail <= contact (a left shock
\* front <= contact), and contact <= right fan tail <= right fan head (contact
\* <= a right shock front).
C23_WavesAreOrdered ==
    SolvedProblem =>
        \A w \in {trace.w} :
            /\ Le(w.b.left.x_head_L, w.b.left.x_tail_L)
            /\ Le(w.b.left.x_tail_L, w.b.x_contact)
            /\ Gt(w.P_star, call.P_R) => Le(w.b.x_contact, w.b.right.x_shock_R)
            /\ ~ Gt(w.P_star, call.P_R) =>
                   /\ Le(w.b.x_contact, w.b.right.x_tail_R)
                   /\ Le(w.b.right.x_tail_R, w.b.right.x_head_R)

\* The fan state s is the undisturbed state (rho, u, P), to a twentieth of
\* the unit: the powers 2/(gamma-1) and 2 gamma/(gamma-1) of the fan
\* multiply the rounding of the last digit of c / c_side.
NearState(s, rho, u, P) ==
    /\ s.rho # NaN /\ Abs(s.rho - rho) <= Unit \div 20
    /\ s.vel # NaN /\ Abs(s.vel - u) <= Unit \div 20
    /\ s.pres # NaN /\ Abs(s.pres - P) <= Unit \div 20

\* On each rarefaction side the fan formulas at the head of the fan give the
\* undisturbed state of the side
FanHeadsMeetStates(e, t, w) ==
    /\ ~ Gt(w.P_star, e.P_L) =>
           NearState(LeftFan(e, t, w.b.left.x_head_L), e.rho_L, e.u_L, e.P_L)
    /\ ~ Gt(w.P_star, e.P_R) =>
           NearState(RightFan(e, t, w.b.right.x_head_R), e.rho_R, e.u_R, e.P_R)

\* C24: the fan formulas evaluated at the head of the fan give the
\* undisturbed state of that side: at xi = (u_L - c_L) t the left fan gives
\* (rho_L, u_L, P_L), at xi = (u_R + c_R) t the right fan gives
\* (rho_R, u_R, P_R), whatever the velocities u_L and u_R.
C24_FanMeetsUndisturbedState ==
    SolvedProblem => FanHeadsMeetStates(trace.e, call.t, trace.w)

\* The same for two states at rest only
FanMeetsStateAtRest ==
    (SolvedProblem /\ call.u_L = 0 /\ call.u_R = 0) => FanHeadsMeetStates(trace.e, call.t, trace.w)

\* riemann_problem went through its loop over the positions
RegionsFilled == call.op = "riemann_problem" /\ ret.status = "returned" /\ trace.regions

\* C25: the wave of a side is a shock iff the final star pressure is above
\* the pressure of the side (equal pressures give a rarefaction), and the
\* star velocity, the star density, the wave speeds and the region loop all
\* take the same kind for the side; the loop reads x_shock_R only where the
\* wave speeds computed it, and x_head_R, x_tail_R only where they did.
C25_OneWaveKindPerSide ==
    RegionsFilled =>
        \A w \in {trace.w} :
            /\ \A place \in {"velocity_L", "density_L", "speeds_L", "regions_L"} :
                  w.shock[place] = Gt(w.P_star, call.P_L)
            /\ \A place \in {"density_R", "speeds_R", "regions_R"} :
                  w.shock[place] = Gt(w.P_star, call.P_R)
            /\ DOMAIN w.b.left = {"x_head_L", "x_tail_L"}
            /\ DOMAIN w.b.right = (IF w.shock.regions_R THEN {"x_shock_R"} ELSE {"x_head_R", "x_tail_R"})

C25_Witness ==
    /\ RegionsFilled
    /\ call.t > 0
    /\ ValidStates(call)
    /\ trace.w.P_star = call.P_L
    /\ ~ trace.w.shock.velocity_L
    /\ ~ trace.w.shock.regions_L

\* What riemann_problem returned for position i
CellOf(value, i) == <<value.rho[i], value.vel[i], value.pres[i]>>

Values(s) == <<s.rho, s.vel, s.pres>>

\* The states of the regions left of the contact, at the shifted position xi
LeftSideStates(e, t, w, xi) ==
    {<<e.rho_L, e.u_L, e.P_L>>, Values(LeftFan(e, t, xi)), <<w.rho_star_L, w.u_star, w.P_star>>}

\* The states of the regions right of the contact
RightSideStates(e, t, w, xi) ==
    {<<w.rho_star_R, w.u_star, w.P_star>>, Values(RightFan(e, t, xi)), <<e.rho_R, e.u_R, e.P_R>>}

\* C26: every query position ends with the state of one region, on the side
\* of the contact it lies on: a left state (undisturbed, fan or star) for
\* x - x_interface < u* t, a right state otherwise; the arrays returned have
\* the length of the query array and a branch has assigned every position,
\* none keeps the zeros the arrays start with.
C26_EveryPositionHasOneRegion ==
    (RegionsFilled /\ ValidStates(call)) =>
        /\ \A a \in {ret.value.rho, ret.value.vel, ret.value.pres, ret.value.ene} : Len(a) = Len(call.x)
        /\ \A i \in DOMAIN call.x : \A xi \in {Sub(call.x[i], call.x_interface)} :
              /\ i \in trace.assigned
              /\ Lt(xi, trace.w.b.x_contact) =>
                    CellOf(ret.value, i) \in LeftSideStates(trace.e, call.t, trace.w, xi)
              /\ ~ Lt(xi, trace.w.b.x_contact) =>
                    CellOf(ret.value, i) \in RightSideStates(trace.e, call.t, trace.w, xi)

\* a call with the left fan head right of the contact, and positions on both
\* sides of the contact
C26_Witness ==
    /\ RegionsFilled
    /\ ValidStates(call)
    /\ call.t > 0
    /\ Lt(trace.w.b.x_contact, trace.w.b.left.x_head_L)
    /\ \E i, j \in DOMAIN call.x :
          /\ Lt(Sub(call.x[i], call.x_interface), trace.w.b.x_contact)
          /\ Lt(trace.w.b.x_contact, Sub(call.x[j], call.x_interface))
          /\ Lt(Sub(call.x[j], call.x_interface), trace.w.b.left.x_head_L)

-----------------------------------------------------------------------------
\* riemann_problem and the position of the interface

\* The call c with the interface moved to the origin and the query positions
\* moved with it
Translated(c) == [c EXCEPT !.x = [i \in DOMAIN c.x |-> Sub(c.x[i], c.x_interface)], !.x_interface = 0]

SameFields(a, b) ==
    /\ a.status = b.status
    /\ a.status = "returned" =>
          /\ a.value.rho = b.value.rho
          /\ a.value.vel = b.value.vel
          /\ a.value.pres = b.value.pres
          /\ a.value.ene = b.value.ene

\* C27: riemann_problem called with positions x and the interface at x0
\* returns the rho, vel, pres and ene of the call with positions x - x0 and
\* the interface at 0, and the x of its solution is the array it was given.
C27_TranslationInvariant ==
    (call.op = "riemann_problem twice" /\ call.pc = 1) =>
        /\ SameFields(ret[1], RiemannResult(Translated(call.args), call.fs).ret)
        /\ ret[1].status = "returned" => ret[1].value.x = call.args.x

\* a call with the interface away from the origin, where the shift matters
C27_Witness ==
    /\ call.op = "riemann_problem twice"
    /\ call.pc = 1
    /\ call.args.x_interface # 0
    /\ call.args.t > 0
    /\ ret[1].status = "returned"
    /\ ~ SameFields(ret[1], RiemannResult([call.args EXCEPT !.x_interface = 0], call.fs).ret)

-----------------------------------------------------------------------------
\* scripts/validate_workflow_structure.py: WorkflowValidator and main().
\* A workflow directory is what the checks look at: whether it has a
\* top-level simulations and workflow_logs directory and a README.md, how
\* many simulations directories lie more than two levels down, and its step
\* directories; a step is whether check_output_structure gets to a run
\* directory in it, whether that has outputs/csv/metadata.json, and how many
\* *.meta.json files its outputs/csv holds.  The validator is its three
\* lists (trace); call holds the directories and where main() is.

MaxWorkflows == 2

MaxMetaFiles == 2

Validator(errors, warnings, fixes_applied) == [errors |-> errors, warnings |-> warnings, fixes_applied |-> fixes_applied]

\* What a check gives back: its result, the validator and the directory
\* after it
Checked(result, v, dir) == [result |-> result, v |-> v, dir |-> dir]

\* Check 1, with the rename of --fix
check_workflow_logs_directory(v, dir, auto_fix) ==
    IF dir.simulations /\ ~ dir.workflow_logs
    THEN IF auto_fix
         THEN Checked(TRUE,
                      Validator(Append(v.errors, "simulations instead of workflow_logs"), v.warnings, Append(v.fixes_applied, "renamed")),
                      [dir EXCEPT !.simulations = FALSE, !.workflow_logs = TRUE])
         ELSE Checked(FALSE, Validator(Append(v.errors, "simulations instead of workflow_logs"), v.warnings, v.fixes_applied), dir)
    ELSE IF dir.workflow_logs THEN Checked(TRUE, v, dir)
    ELSE Checked(TRUE, Validator(v.errors, Append(v.warnings, "missing workflow_logs"), v.fixes_applied), dir)

\* Check 2
check_readme(v, dir) ==
    IF dir.readme THEN Checked(TRUE, v, dir)
    ELSE Checked(TRUE, Validator(v.errors, Append(v.warnings, "missing README.md"), v.fixes_applied), dir)

\* validate_run_directory returns nothing: the validator after it
validate_run_directory(v, step) ==
    IF ~ step.metadata /\ step.meta_files > 1
    THEN Validator(Append(v.errors, "meta.json files"), v.warnings, v.fixes_applied)
    ELSE v

\* check_output_structure returns nothing either
check_output_structure(v, step) ==
    IF step.run THEN validate_run_directory(v, step) ELSE v

\* config, src and build are all optional, so valid stays True; the result of
\* check_output_structure is not looked at
validate_step_structure(v, dir, step) == Checked(TRUE, check_output_structure(v, step), dir)

\* Check 3: the steps from the i-th on, all_valid so far
RECURSIVE ValidateSteps(_, _, _, _)
ValidateSteps(v, dir, i, all_valid) ==
    IF i > Len(dir.steps) THEN Checked(all_valid, v, dir)
    ELSE ValidateSteps(validate_step_structure(v, dir, dir.steps[i]).v, dir, i + 1,
                       all_valid /\ validate_step_structure(v, dir, dir.steps[i]).result)

validate_step_directories(v, dir) == ValidateSteps(v, dir, 1, TRUE)

\* Check 4: one error for each simulations directory more than two levels down
RECURSIVE StrayErrors(_, _)
StrayErrors(errors, n) == IF n = 0 THEN errors ELSE StrayErrors(Append(errors, "stray simulations"), n - 1)

check_no_stray_simulations_dirs(v, dir) ==
    IF dir.stray > 0 THEN Checked(FALSE, Validator(StrayErrors(v.errors, dir.stray), v.warnings, v.fixes_applied), dir)
    ELSE Checked(TRUE, v, dir)

\* validate_workflow: the four checks in turn, each on what the one before
\* left (c1, c2, c3), valid the conjunction of their results
AfterCheck4(c3, valid) ==
    Checked(valid /\ check_no_stray_simulations_dirs(c3.v, c3.dir).result,
            check_no_stray_simulations_dirs(c3.v, c3.dir).v,
            check_no_stray_simulations_dirs(c3.v, c3.dir).dir)

AfterCheck3(c2, valid) ==
    AfterCheck4(validate_step_directories(c2.v, c2.dir), valid /\ validate_step_directories(c2.v, c2.dir).result)

AfterCheck2(c1, valid) ==
    AfterCheck3(check_readme(c1.v, c1.dir), valid /\ check_readme(c1.v, c1.dir).result)

validate_workflow(v, dir, auto_fix) ==
    AfterCheck2(check_workflow_logs_directory(v, dir, auto_fix),
                check_workflow_logs_directory(v, dir, auto_fix).result)

Steps == [run : BOOLEAN, metadata : BOOLEAN, meta_files : 1..MaxMetaFiles]

WorkflowDirs ==
    [simulations : BOOLEAN, workflow_logs : BOOLEAN, readme : BOOLEAN, stray : 0..1,
     steps : {<< >>} \cup {<<s>> : s \in {t \in Steps : t.run \/ (~ t.metadata /\ t.meta_files = 1)}}]

\* simulations/workflows: missing (None), or its workflow directories in the
\* order of their names
WorkflowRoots == {None} \cup UNION {[1..n -> WorkflowDirs] : n \in 0..MaxWorkflows}

\* --workflow: 0 when not given, else the place of the named directory
\* among the workflows (beyond the last: no such directory)
InitValidator ==
    /\ call \in {[op |-> "validate_workflow_structure.main", fix |-> fix, workflow |-> w, root |-> root, pc |-> "main", i |-> 0, last |-> 0, success |-> TRUE] :
                    fix \in BOOLEAN, w \in {0, 1, MaxWorkflows + 1}, root \in WorkflowRoots}
    /\ ret = Pending
    /\ trace = NoTrace

Exit(success) == Returned([success |-> success, status |-> IF success THEN 0 ELSE 1])

\* main() up to the first validate_workflow: the exits for a missing
\* directory, and validate_all_workflows with no workflow in it
Main ==
    /\ call.op = "validate_workflow_structure.main"
    /\ call.pc = "main"
    /\ IF call.root = None
       THEN /\ call' = [call EXCEPT !.pc = "exited"]
            /\ ret' = Exit(FALSE)
            /\ trace' = NoTrace
       ELSE IF call.workflow > Len(call.root) \/ (call.workflow = 0 /\ Len(call.root) = 0)
       THEN /\ call' = [call EXCEPT !.pc = "exited"]
            /\ ret' = Exit(FALSE)
            /\ trace' = Validator(<< >>, << >>, << >>)
       ELSE /\ call' = [call EXCEPT !.pc = "validating",
                                    !.i = IF call.workflow = 0 THEN 1 ELSE call.workflow,
                                    !.last = IF call.workflow = 0 THEN Len(call.root) ELSE call.workflow]
            /\ ret' = Pending
            /\ trace' = Validator(<< >>, << >>, << >>)

\* self.validate_workflow(workflow_dir) for the next directory
ValidateWorkflow ==
    /\ call.op = "validate_workflow_structure.main"
    /\ call.pc = "validating"
    /\ call.i <= call.last
    /\ \E r \in {validate_workflow(trace, call.root[call.i], call.fix)} :
          /\ call' = [call EXCEPT !.root[call.i] = r.dir, !.i = call.i + 1,
                                  !.success = call.success /\ r.result]
          /\ trace' = r.v
    /\ UNCHANGED ret

\* print_summary(), the result returned to main() and sys.exit
ExitMain ==
    /\ call.op = "validate_workflow_structure.main"
    /\ call.pc = "validating"
    /\ call.i > call.last
    /\ call' = [call EXCEPT !.pc = "exited"]
    /\ ret' = Exit(call.success)
    /\ UNCHANGED trace

NextValidator == Main \/ ValidateWorkflow \/ ExitMain

SpecValidator == InitValidator /\ [][NextValidator]_vars

\* C28: the validator reports success (exit status 0) only when its list of
\* errors is empty, with and without --fix.
C28_SuccessMeansNoErrors ==
    (call.op = "validate_workflow_structure.main" /\ call.pc = "exited" /\ ret.value.success) =>
        trace.errors = << >>

\* The same without --fix and without run directories
SuccessWithoutFixAndRuns ==
    (call.op = "validate_workflow_structure.main" /\ call.pc = "exited" /\ ret.value.success /\ ~ call.fix
        /\ \A i \in DOMAIN call.root : \A k \in DOMAIN call.root[i].steps : ~ call.root[i].steps[k].run) =>
        trace.errors = << >>

-----------------------------------------------------------------------------
\* analysis/binary_reader.py: BinarySimulationReader(directory).  A directory
\* is None when it does not exist, else its .sph files in the order of their
\* names.

\* BinarySnapshotReader.read() as one call: the header, the two checks, the
\* particles
read(file) ==
    IF read_header(file).status = "raised" THEN read_header(file)
    ELSE IF validate(BinarySnapshotHeader(file)) # "valid" THEN Raised("ValueError")
    ELSE read_particles(file, ReadFields(file.size, 0, 1, TRUE).pos, BinarySnapshotHeader(file))

\* The attributes of class UnitFactory in analysis/units.py
UnitFactory == {"create_dimensionless", "create_si", "create_cgs", "create_galactic_kpc", "create_galactic_pc", "detect_from_csv_header"}

\* BinarySnapshotReader.get_unit_system(): read() again, then the lookup of
\* UnitFactory.create_custom
get_unit_system(file) ==
    IF read(file).status = "raised" THEN read(file)
    ELSE IF "create_custom" \notin UnitFactory THEN Raised("AttributeError")
    ELSE Returned([name |-> "custom"])

MaxSnapshotFiles == 2

SeriesFiles ==
    {[size |-> size + bytes_per_particle(d), magic_number |-> magic, version |-> version, dimension |-> d, particle_count |-> 1] :
        size \in {12, 96}, magic \in {MAGIC_NUMBER, 0}, version \in {1, 2}, d \in {1, 3}}

Directories == {None} \cup UNION {[1..n -> SeriesFiles] : n \in 0..MaxSnapshotFiles}

InitSeries ==
    /\ call \in {[op |-> "BinarySimulationReader", directory |-> d, pc |-> "__init__", self |-> None] : d \in Directories}
    /\ ret = Pending
    /\ trace = NoTrace

\* self.directory = Path(directory) and the two checks on it
OpenDirectory ==
    /\ call.op = "BinarySimulationReader"
    /\ call.pc = "__init__"
    /\ call' = [call EXCEPT !.pc = IF call.directory = None \/ Len(call.directory) = 0 THEN "raised" ELSE "files",
                            !.self = IF call.directory = None \/ Len(call.directory) = 0 THEN None ELSE [snapshot_files |-> call.directory]]
    /\ ret' = IF call.directory = None THEN Raised("FileNotFoundError")
              ELSE IF Len(call.directory) = 0 THEN Raised("ValueError")
              ELSE Pending
    /\ UNCHANGED trace

\* header, _ = reader.read() on the first file; self.dimension
ReadFirstSnapshot ==
    /\ call.op = "BinarySimulationReader"
    /\ call.pc = "files"
    /\ \E r \in {read(call.self.snapshot_files[1])} :
          /\ call' = [call EXCEPT !.pc = IF r.status = "raised" THEN "raised" ELSE "header",
                                  !.self = IF r.status = "raised" THEN call.self
                                           ELSE [snapshot_files |-> call.self.snapshot_files, dimension |-> r.value.header.dimension]]
          /\ ret' = IF r.status = "raised" THEN r ELSE Pending
    /\ UNCHANGED trace

\* self.units = reader.get_unit_system(); self.num_snapshots = len(...)
SetUnits ==
    /\ call.op = "BinarySimulationReader"
    /\ call.pc = "header"
    /\ \E r \in {get_unit_system(call.self.snapshot_files[1])} :
          /\ call' = [call EXCEPT !.pc = IF r.status = "raised" THEN "raised" ELSE "done",
                                  !.self = IF r.status = "raised" THEN call.self
                                           ELSE [snapshot_files |-> call.self.snapshot_files, dimension |-> call.self.dimension,
                                                 units |-> r.value, num_snapshots |-> Len(call.self.snapshot_files)]]
          /\ ret' = IF r.status = "raised" THEN r ELSE Returned(None)
    /\ UNCHANGED trace

NextSeries == OpenDirectory \/ ReadFirstSnapshot \/ SetUnits

SpecSeries == InitSeries /\ [][NextSeries]_vars

\* The constructor has returned or raised
Constructed == call.op = "BinarySimulationReader" /\ call.pc \in {"raised", "done"}

\* C29: on an existing directory with a valid version-1 .sph file the
\* constructor returns, with dimension taken from the first file and
\* num_snapshots the number of files; FileNotFoundError is raised only for a
\* missing directory and ValueError only for a directory without .sph file.
C29_ConstructorCompletes ==
    Constructed =>
        /\ (call.directory # None /\ \E i \in DOMAIN call.directory : read(call.directory[i]).status = "returned") =>
              /\ call.pc = "done"
              /\ call.self.dimension = call.directory[1].dimension
              /\ call.self.num_snapshots = Len(call.directory)
        /\ ret = Raised("FileNotFoundError") => call.directory = None
        /\ ret = Raised("ValueError") => (call.directory # None /\ Len(call.directory) = 0)

\* The two checks on the directory alone
DirectoryChecks ==
    Constructed =>
        /\ call.directory = None => ret = Raised("FileNotFoundError")
        /\ (call.directory # None /\ Len(call.directory) = 0) => ret = Raised("ValueError")
        /\ ret = Raised("FileNotFoundError") => call.directory = None

-----------------------------------------------------------------------------
\* analysis/simulation_runs.py: SimulationRunFinder.find_by_git_hash.  A
\* string is the sequence of its characters.  A run_* entry is not a
\* directory, or a run directory whose metadata.json cannot be parsed, or
\* one whose metadata has no code_version.git_hash (no metadata.json, or the
\* key missing), or one with a recorded hash.

MaxHashLength == 2

MaxRuns == 2

Strings == UNION {[1..n -> {"a", "b"}] : n \in 0..MaxHashLength}

\* s.startswith(prefix)
startswith(s, prefix) == Len(prefix) <= Len(s) /\ SubSeq(s, 1, Len(prefix)) = prefix

RunEntries ==
    {[kind |-> "file"], [kind |-> "bad metadata"], [kind |-> "no hash"]}
    \cup {[kind |-> "hash", git_hash |-> h] : h \in Strings}

\* SimulationRunReader(run_dir): json.load raises on a metadata.json that is
\* no JSON; without the file metadata is {}
SimulationRunReader(entry) ==
    IF entry.kind = "bad metadata" THEN Raised("JSONDecodeError")
    ELSE Returned([metadata |-> IF entry.kind = "hash" THEN [git_hash |-> entry.git_hash] ELSE [none |-> TRUE]])

\* reader.metadata.get('code_version', {}).get('git_hash', '')
run_hash(metadata) == IF "git_hash" \in DOMAIN metadata THEN metadata.git_hash ELSE << >>

\* The body of the loop for one run_* entry: whether its reader is appended
Appended(entry, git_hash) ==
    /\ entry.kind # "file"
    /\ SimulationRunReader(entry).status = "returned"
    /\ \/ startswith(run_hash(SimulationRunReader(entry).value.metadata), git_hash)
       \/ startswith(git_hash, run_hash(SimulationRunReader(entry).value.metadata))

InitFinder ==
    /\ call \in {[op |-> "find_by_git_hash", git_hash |-> h, entries |-> e, i |-> 1] :
                    h \in Strings, e \in UNION {[1..n -> RunEntries] : n \in 0..MaxRuns}}
    /\ ret = Pending
    /\ trace = [runs |-> << >>]

\* one turn of the loop over the run_* entries
VisitRun ==
    /\ call.op = "find_by_git_hash"
    /\ ret = Pending
    /\ call.i <= Len(call.entries)
    /\ call' = [call EXCEPT !.i = call.i + 1]
    /\ trace' = [runs |-> IF Appended(call.entries[call.i], call.git_hash) THEN Append(trace.runs, call.i) ELSE trace.runs]
    /\ UNCHANGED ret

\* return runs
ReturnRuns ==
    /\ call.op = "find_by_git_hash"
    /\ ret = Pending
    /\ call.i > Len(call.entries)
    /\ ret' = Returned(trace.runs)
    /\ UNCHANGED <<call, trace>>

NextFinder == VisitRun \/ ReturnRuns

SpecFinder == InitFinder /\ [][NextFinder]_vars

Found == {ret.value[k] : k \in DOMAIN ret.value}

\* C30: find_by_git_hash(h) returns exactly the runs whose recorded git hash
\* is a prefix of h or has h as a prefix; a run without a recorded git hash
\* is not returned for a non-empty h.
C30_MatchesRecordedHash ==
    (call.op = "find_by_git_hash" /\ ret.status = "returned") =>
        /\ Found = {i \in DOMAIN call.entries :
                       /\ call.entries[i].kind = "hash"
                       /\ \/ startswith(call.entries[i].git_hash, call.git_hash)
                          \/ startswith(call.git_hash, call.entries[i].git_hash)}
        /\ call.git_hash # << >> => \A i \in Found : call.entries[i].kind # "no hash"

\* The same for runs that all record a hash
MatchesWhenAllRecorded ==
    (call.op = "find_by_git_hash" /\ ret.status = "returned" /\ \A i \in DOMAIN call.entries : call.entries[i].kind # "no hash") =>
        Found = {i \in DOMAIN call.entries :
                    /\ call.entries[i].kind = "hash"
                    /\ \/ startswith(call.entries[i].git_hash, call.git_hash)
                       \/ startswith(call.git_hash, call.entries[i].git_hash)}

====
